---- MODULE Spec2Model ----
(***************************************************************************)
(* GitSync: the deployment orchestration core.                             *)
(*                                                                         *)
(* The model follows the JavaScript sources: index.js (startup pass and    *)
(* handleDeploy), deployer.js (deploy), gitPull.js, dependencyInstaller.js,*)
(* taskServerClient.js, webhook.js and polling.js.  JavaScript runs one    *)
(* turn at a time: an action of the model is one turn, from the resumption *)
(* of an await (or the arrival of an event) to the next await.  What the   *)
(* outside world answers (git, the package manager, the build commands,    *)
(* the TaskServer API, the file system) is drawn with \E.                  *)
(*                                                                         *)
(* JavaScript objects are records whose optional fields may be missing:    *)
(* "f" \in DOMAIN r says that r has the field f.                           *)
(***************************************************************************)
EXTENDS Integers, Sequences, FiniteSets, TLC

(***************************************************************************)
(* Bounds of the model.                                                    *)
(***************************************************************************)
MaxRepos == 2
MaxBuild == 2
MaxScripts == 2
MaxDeploys == 3
\* the longest ref, in path segments, that the parsers are applied to
MaxRefLen == 5

VARIABLES
  config,     \* the loaded configuration (index.js `config`)
  fs,         \* per repository: what is at repo.path on disk
  main,       \* where the top-level code of index.js is
  startupIdx, \* index.js startup loop: position in config.repos
  pipes,      \* the deploy() activations whose promise is not yet consumed
  nextId,     \* number of deploy() calls made so far, plus one
  server,     \* webhook.js: the HTTP server is listening
  poll,       \* polling.js: the closure state of startPolling
  response,   \* the last HTTP response of the webhook server, with the
              \* method and path of the request it answers
  call        \* the last application of a function of webhook.js on its own

vars ==
  <<config, fs, main, startupIdx, pipes, nextId, server, poll, response, call>>

(***************************************************************************)
(* Helpers for JavaScript objects.                                         *)
(***************************************************************************)
\* { ...r, k: v }
With(r, k, v) == [x \in DOMAIN r \cup {k} |-> IF x = k THEN v ELSE r[x]]

\* r.k read as a condition: a missing field is undefined, which is falsy
Truthy(r, k) == k \in DOMAIN r /\ r[k] = TRUE

Min(S) == CHOOSE m \in S : \A n \in S : m <= n

SeqsUpTo(S, n) == UNION {[1..k -> S] : k \in 0..n}

RECURSIVE Filter(_, _)
Filter(s, Keep) ==
  IF s = <<>> THEN <<>>
  ELSE IF Head(s) \in Keep THEN <<Head(s)>> \o Filter(Tail(s), Keep)
       ELSE Filter(Tail(s), Keep)

(***************************************************************************)
(* Configuration values.                                                   *)
(***************************************************************************)
Commands == {"make", "pack"}
\* an entry of a build list that is neither a string nor an object with a
\* command: normalize() maps it to null
Invalid == "<invalid>"

ScriptNames == <<"s1", "s2", "s3", "s4">>
Scripts(n) == [k \in 1..n |-> ScriptNames[k]]

NoBuild == [kind |-> "absent"]

BuildConfigs ==
  {NoBuild}
  \cup {[kind |-> "string", command |-> c] : c \in Commands}
  \cup {[kind |-> "object", command |-> c] : c \in Commands}
  \cup {[kind |-> "commands", items |-> s] : s \in SeqsUpTo(Commands, MaxBuild)}
  \cup {[kind |-> "array", items |-> s] :
          s \in SeqsUpTo(Commands \cup {Invalid}, MaxBuild)}

\* deployer.js getBuildCommands: the list of {command} resolved from repo.build
getBuildCommands(repoConfig) ==
  LET b == repoConfig.build IN
  CASE b.kind = "absent"   -> <<>>
    [] b.kind = "string"   -> <<b.command>>
    [] b.kind = "object"   -> <<b.command>>
    [] b.kind = "commands" -> Filter(b.items, Commands)
    [] b.kind = "array"    -> Filter(b.items, Commands)

(***************************************************************************)
(* Collaborators: what each call returns, as the source computes it from   *)
(* what the outside world answers.                                         *)
(***************************************************************************)
\* What can be at repo.path: nothing, a directory that is no git working
\* copy, or a git working copy.
FsStates == {"missing", "dir", "repo"}

\* gitPull.js isGitRepo
isGitRepo(at) == at = "repo"

\* gitPull.js gitClone: cloneOk is whether `git clone` succeeded
gitClone(cloneOk) ==
  IF cloneOk THEN [success |-> TRUE, cloned |-> TRUE]
  ELSE [success |-> FALSE, cloned |-> FALSE, error |-> "clone failed"]

\* gitPull.js ensureRepo
ensureRepo(at, hasUrl, cloneOk) ==
  IF isGitRepo(at) THEN [success |-> TRUE, cloned |-> FALSE, existed |-> TRUE]
  ELSE IF ~hasUrl
       THEN [success |-> FALSE, error |-> "Repository not found and no repoUrl"]
       ELSE gitClone(cloneOk)

\* What git answers to fetch/status/checkout/pull in a working copy.
GitAnswers == {"git-error", "up-to-date", "pulled"}

\* gitPull.js gitPull.  simpleGit(p) is called before the try block and
\* throws when the directory does not exist: gitPull then rejects.  In a
\* directory that is no working copy every git command fails.
gitPull(at, answer) ==
  IF at = "missing" THEN [threw |-> TRUE]
  ELSE IF at = "dir" \/ answer = "git-error"
       THEN [success |-> FALSE, changed |-> FALSE, message |-> "git error"]
       ELSE IF answer = "up-to-date"
            THEN [success |-> TRUE, changed |-> FALSE]
            ELSE [success |-> TRUE, changed |-> TRUE]

\* Dependency types a configuration may name ("absent": no dependencies
\* object; "bogus": a type the installer does not know).
DepTypes == {"absent", "none", "npm", "bogus"}

\* What the package manager run can come to: the manifest file is missing,
\* the install command succeeds, the install command fails.
InstallAnswers == {"no-manifest", "installed", "install-error"}

\* dependencyInstaller.js installDependencies (npm stands for npm, bun, yarn
\* and pip, which differ only in the manifest and the command)
installDependencies(type, answer) ==
  IF type \in {"absent", "none"} THEN [success |-> TRUE, skipped |-> TRUE]
  ELSE IF type = "npm"
       THEN CASE answer = "no-manifest"   -> [success |-> TRUE, skipped |-> TRUE]
              [] answer = "installed"     -> [success |-> TRUE]
              [] answer = "install-error" -> [success |-> FALSE, error |-> "install failed"]
       ELSE [success |-> FALSE, error |-> "Unknown dependency type"]

\* taskServerClient.js restartScript: ok is whether the request went through
\* and TaskServer answered success; a failed request is caught
restartScript(ok) ==
  IF ok THEN [success |-> TRUE] ELSE [success |-> FALSE, error |-> "restart failed"]

\* taskServerClient.js stopScript
stopScript(ok) ==
  IF ok THEN [success |-> TRUE] ELSE [success |-> FALSE, error |-> "stop failed"]

\* taskServerClient.js addScript
addScript(ok) ==
  IF ok THEN [success |-> TRUE] ELSE [success |-> FALSE, error |-> "add failed"]

(***************************************************************************)
(* deployer.js deploy.  A frame is one activation of deploy(): pc names    *)
(* the call it awaits ("returned": the promise is resolved with results;   *)
(* "threw": the promise is rejected), results is the `results` object,     *)
(* calls is the log of the collaborator calls it has issued, in order,     *)
(* each with its outcome once it has settled.  Time is counted in awaits:  *)
(* Date.now() - startTime is the number of calls the activation has        *)
(* awaited.                                                                *)
(***************************************************************************)
Call(f, op, arg) ==
  [f EXCEPT !.pc = op, !.calls = Append(@, [op |-> op, arg |-> arg])]

\* the call the activation awaits has settled with res (a call that throws
\* has no result)
Answered(f, res) ==
  [f EXCEPT !.calls[Len(f.calls)] = With(@, "success", Truthy(res, "success"))]

PushStep(f, entry) == [f EXCEPT !.results.steps = Append(@, entry)]

Elapsed(f) == Len(f.calls)

\* results.success = false; results.error = ...; return results
Fail(f, err) ==
  [f EXCEPT !.results = With(With(@, "success", FALSE), "error", err),
            !.pc = "returned"]

\* deploy lines 381-390: results.duration = ...; return results
Complete(f) ==
  [f EXCEPT !.results.duration = Elapsed(f), !.pc = "returned"]

\* deploy lines 260-265: the short circuit
Skip(f) ==
  [f EXCEPT !.results = With([@ EXCEPT !.duration = Elapsed(f)], "skipped", TRUE),
            !.pc = "returned"]

\* EnterRestart that restarts nothing
EnterRestartNever(f, rc) ==
  Complete(PushStep(f, [step |-> "restart-scripts", skipped |-> TRUE]))

\* deploy lines 362-379: step 5, restart scripts
EnterRestart(f, rc) ==
  IF Len(rc.restartScripts) > 0
  THEN Call([f EXCEPT !.i = 1, !.restartResults = <<>>],
            "restartScript", rc.restartScripts[1])
  ELSE Complete(PushStep(f, [step |-> "restart-scripts", skipped |-> TRUE]))

\* EnterRegister that registers the scripts whether or not the repository
\* was cloned in this run
EnterRegisterAlways(f, rc) ==
  IF Len(rc.registerScripts) > 0
  THEN Call([f EXCEPT !.i = 1, !.registerResults = <<>>],
            "addScript", rc.registerScripts[1])
  ELSE EnterRestart(f, rc)

\* deploy lines 343-360: step 4, register scripts
EnterRegister(f, rc) ==
  IF f.wasCloned /\ Len(rc.registerScripts) > 0
  THEN Call([f EXCEPT !.i = 1, !.registerResults = <<>>],
            "addScript", rc.registerScripts[1])
  ELSE EnterRestart(f, rc)

\* EnterBuild that pushes no placeholder entry when there is nothing to build
EnterBuildSilent(f, rc) ==
  IF Len(f.buildCommands) > 0
  THEN Call([f EXCEPT !.i = 1, !.buildResults = <<>>],
            "execAsync", f.buildCommands[1])
  ELSE EnterRegister(f, rc)

\* deploy lines 302-341: step 3, build
EnterBuild(f, rc) ==
  IF Len(f.buildCommands) > 0
  THEN Call([f EXCEPT !.i = 1, !.buildResults = <<>>],
            "execAsync", f.buildCommands[1])
  ELSE EnterRegister(PushStep(f, [step |-> "build", skipped |-> TRUE]), rc)

\* deploy lines 284-300: step 2.5, stop scripts
EnterStop(f, rc) ==
  LET g == [f EXCEPT !.buildCommands = getBuildCommands(rc)] IN
  IF Len(rc.restartScripts) > 0 /\ Len(g.buildCommands) > 0
  THEN Call([g EXCEPT !.i = 1], "stopScript", rc.restartScripts[1])
  ELSE EnterBuild(g, rc)

\* EnterInstall that runs the installer whatever the dependency type is
EnterInstallAlways(f, rc) ==
  Call(f, "installDependencies", rc.dependencies)

\* deploy lines 267-282: step 2, install dependencies
EnterInstall(f, rc) ==
  IF rc.dependencies # "absent" /\ rc.dependencies # "none"
  THEN Call(f, "installDependencies", rc.dependencies)
  ELSE EnterStop(PushStep(f, [step |-> "install-deps", skipped |-> TRUE]), rc)

\* deploy line 259: results.steps.find(s => s.step === 'ensure-repo')?.cloned
WasCloned(steps) ==
  LET found == {k \in DOMAIN steps : steps[k].step = "ensure-repo"} IN
  found # {} /\ Truthy(steps[Min(found)], "cloned")

\* AfterPull without the short circuit of lines 258-265
AfterPullNoSkip(f, rc, pullResult) ==
  LET g == PushStep(f, With(pullResult, "step", "git-pull")) IN
  IF ~pullResult.success
  THEN Fail(g, <<"Git pull failed", pullResult.message>>)
  ELSE EnterInstall([g EXCEPT !.wasCloned = WasCloned(g.results.steps),
                              !.changed = pullResult.changed], rc)

\* deploy lines 249-265: gitPull has returned pullResult
AfterPull(f, rc, pullResult) ==
  LET g == PushStep(f, With(pullResult, "step", "git-pull")) IN
  IF ~pullResult.success
  THEN Fail(g, <<"Git pull failed", pullResult.message>>)
  ELSE IF ~pullResult.changed /\ ~WasCloned(g.results.steps)
       THEN Skip(g)
       ELSE EnterInstall([g EXCEPT !.wasCloned = WasCloned(g.results.steps),
                                   !.changed = pullResult.changed], rc)

\* deploy lines 231-248: ensureRepo has returned ensureResult
AfterEnsure(f, rc, ensureResult) ==
  LET g == PushStep(f, With(ensureResult, "step", "ensure-repo")) IN
  IF ~ensureResult.success
  THEN Fail(g, <<"Failed to ensure repo", ensureResult.error>>)
  ELSE Call(g, "gitPull", rc.branch)

\* deploy lines 205-230 (or 248): from the call of deploy to its first await
deploy(r, rc, triggerInfo, caller) ==
  LET f == [repo |-> r, caller |-> caller, pc |-> "start", calls |-> <<>>,
            results |-> [repo |-> rc.name, success |-> TRUE, steps |-> <<>>,
                         duration |-> 0, trigger |-> triggerInfo],
            wasCloned |-> FALSE, changed |-> FALSE, i |-> 0,
            buildCommands |-> <<>>, buildResults |-> <<>>,
            registerResults |-> <<>>, restartResults |-> <<>>]
  IN IF rc.repoUrl THEN Call(f, "ensureRepo", rc.name)
     ELSE Call(f, "gitPull", rc.branch)

(***************************************************************************)
(* The activations.                                                        *)
(***************************************************************************)
InFlight(f) == f.pc \notin {"returned", "threw"}

RepoOf(f) == config.repos[f.repo]

\* ids of the activations in ps for repository r that have not terminated
Running(ps, r) == {p \in DOMAIN ps : ps[p].repo = r /\ InFlight(ps[p])}

Without(ps, p) == [q \in DOMAIN ps \ {p} |-> ps[q]]

\* index.js line 47: triggerInfo = null, for a caller that passes none
NoTrigger == [null |-> TRUE]

\* index.js handleDeploy: calls deploy; the new activation runs to its first
\* await within the caller's turn.  ps are the activations there are;
\* `during` records which activations for the same repository were in
\* flight when this one was submitted.
handleDeploy(ps, r, triggerInfo, caller) ==
  [p \in DOMAIN ps \cup {nextId} |->
     IF p = nextId
     THEN With(deploy(r, config.repos[r], triggerInfo, caller),
               "during", Running(ps, r))
     ELSE ps[p]]

\* every deploy() call of a run is counted; the model stops at MaxDeploys
CanDeploy == nextId <= MaxDeploys

Alive == main \notin {"crashed", "exited"}

Resume(p, op) == Alive /\ p \in DOMAIN pipes /\ pipes[p].pc = op

\* EnsureRepoReturns that drops the URL from the repository's configuration
\* once the repository is cloned
EnsureRepoReturnsMarking(p) ==
  /\ Resume(p, "ensureRepo")
  /\ \E cloneOk \in BOOLEAN :
       LET f   == pipes[p]
           res == ensureRepo(fs[f.repo], RepoOf(f).repoUrl, cloneOk)
       IN /\ pipes' = [pipes EXCEPT ![p] =
                          AfterEnsure(Answered(f, res), RepoOf(f), res)]
          /\ fs' = IF Truthy(res, "cloned") THEN [fs EXCEPT ![f.repo] = "repo"]
                   ELSE fs
          /\ config' = IF Truthy(res, "cloned")
                       THEN [config EXCEPT !.repos[f.repo].repoUrl = FALSE]
                       ELSE config
  /\ UNCHANGED <<main, startupIdx, nextId, server, poll, response, call>>

\* ensureRepo settles
EnsureRepoReturns(p) ==
  /\ Resume(p, "ensureRepo")
  /\ \E cloneOk \in BOOLEAN :
       LET f   == pipes[p]
           res == ensureRepo(fs[f.repo], RepoOf(f).repoUrl, cloneOk)
       IN /\ pipes' = [pipes EXCEPT ![p] =
                          AfterEnsure(Answered(f, res), RepoOf(f), res)]
          /\ fs' = IF Truthy(res, "cloned") THEN [fs EXCEPT ![f.repo] = "repo"]
                   ELSE fs
  /\ UNCHANGED <<config, main, startupIdx, nextId, server, poll, response, call>>

\* gitPull settles: with a result, or by throwing (deploy has no try/catch,
\* so its promise is rejected)
GitPullReturns(p) ==
  /\ Resume(p, "gitPull")
  /\ \E answer \in GitAnswers :
       LET f   == pipes[p]
           res == gitPull(fs[f.repo], answer)
       IN pipes' = [pipes EXCEPT ![p] =
                      IF "threw" \in DOMAIN res
                      THEN [Answered(f, res) EXCEPT !.pc = "threw"]
                      ELSE AfterPull(Answered(f, res), RepoOf(f), res)]
  /\ UNCHANGED <<config, fs, main, startupIdx, nextId, server, poll, response, call>>

\* AfterInstall that goes on whatever installDependencies returned
AfterInstallLenient(f, rc, installResult) ==
  EnterStop(PushStep(f, With(installResult, "step", "install-deps")), rc)

\* deploy lines 271-278: installDependencies has returned
AfterInstall(f, rc, installResult) ==
  LET g == PushStep(f, With(installResult, "step", "install-deps")) IN
  IF ~installResult.success /\ ~Truthy(installResult, "skipped")
  THEN Fail(g, <<"Dependency installation failed", installResult.error>>)
  ELSE EnterStop(g, rc)

InstallReturns(p) ==
  /\ Resume(p, "installDependencies")
  /\ \E answer \in InstallAnswers :
       LET f   == pipes[p]
           res == installDependencies(RepoOf(f).dependencies, answer)
       IN pipes' = [pipes EXCEPT ![p] = AfterInstall(Answered(f, res), RepoOf(f), res)]
  /\ UNCHANGED <<config, fs, main, startupIdx, nextId, server, poll, response, call>>

\* AfterStop in which a failed stop fails the deployment
AfterStopFatal(f, rc, stopResult) ==
  IF ~stopResult.success
  THEN Fail(f, <<"Stop failed", rc.restartScripts[f.i]>>)
  ELSE IF f.i < Len(rc.restartScripts)
       THEN Call([f EXCEPT !.i = f.i + 1], "stopScript", rc.restartScripts[f.i + 1])
       ELSE EnterBuild(f, rc)

\* deploy lines 295-299: stopScript has returned; its result is dropped
AfterStop(f, rc, stopResult) ==
  IF f.i < Len(rc.restartScripts)
  THEN Call([f EXCEPT !.i = f.i + 1], "stopScript", rc.restartScripts[f.i + 1])
  ELSE EnterBuild(f, rc)

StopScriptReturns(p) ==
  /\ Resume(p, "stopScript")
  /\ \E ok \in BOOLEAN :
       LET f   == pipes[p]
           res == stopScript(ok)
       IN pipes' = [pipes EXCEPT ![p] = AfterStop(Answered(f, res), RepoOf(f), res)]
  /\ UNCHANGED <<config, fs, main, startupIdx, nextId, server, poll, response, call>>

\* AfterBuild that records a failed command and goes on with the next
AfterBuildContinue(f, rc, ok) ==
  LET cmd == f.buildCommands[f.i]
      g   == [f EXCEPT !.buildResults = Append(@, [command |-> cmd, success |-> ok])]
  IN IF g.i < Len(g.buildCommands)
     THEN Call([g EXCEPT !.i = g.i + 1], "execAsync", g.buildCommands[g.i + 1])
     ELSE EnterRegister(
            PushStep(g, [step |-> "build", results |-> g.buildResults]), rc)

\* deploy lines 319-337: the build command has ended (ok) or failed
AfterBuild(f, rc, ok) ==
  LET cmd == f.buildCommands[f.i] IN
  IF ok
  THEN LET g == [f EXCEPT !.buildResults =
                    Append(@, [command |-> cmd, success |-> TRUE])]
       IN IF g.i < Len(g.buildCommands)
          THEN Call([g EXCEPT !.i = g.i + 1], "execAsync", g.buildCommands[g.i + 1])
          ELSE EnterRegister(
                 PushStep(g, [step |-> "build", results |-> g.buildResults]), rc)
  ELSE LET g == [f EXCEPT !.buildResults =
                    Append(@, [command |-> cmd, success |-> FALSE,
                               error |-> "exec failed"])]
       IN Fail(PushStep(g, [step |-> "build", results |-> g.buildResults]),
               <<"Build failed", cmd>>)

BuildReturns(p) ==
  /\ Resume(p, "execAsync")
  /\ \E ok \in BOOLEAN :
       LET f == pipes[p] IN
       pipes' = [pipes EXCEPT ![p] =
                   AfterBuild(Answered(f, [success |-> ok]), RepoOf(f), ok)]
  /\ UNCHANGED <<config, fs, main, startupIdx, nextId, server, poll, response, call>>

\* AfterAdd that pushes an entry to the steps list for every script
AfterAddEach(f, rc, addResult) ==
  LET g == [f EXCEPT !.registerResults =
              Append(@, With(addResult, "script", rc.registerScripts[f.i]))]
      h == PushStep(g, [step |-> "register-scripts", results |-> g.registerResults])
  IN IF h.i < Len(rc.registerScripts)
     THEN Call([h EXCEPT !.i = h.i + 1], "addScript", rc.registerScripts[h.i + 1])
     ELSE EnterRestart(h, rc)

\* deploy lines 349-359: addScript has returned
AfterAdd(f, rc, addResult) ==
  LET g == [f EXCEPT !.registerResults =
              Append(@, With(addResult, "script", rc.registerScripts[f.i]))]
  IN IF g.i < Len(rc.registerScripts)
     THEN Call([g EXCEPT !.i = g.i + 1], "addScript", rc.registerScripts[g.i + 1])
     ELSE EnterRestart(
            PushStep(g, [step |-> "register-scripts", results |-> g.registerResults]),
            rc)

AddScriptReturns(p) ==
  /\ Resume(p, "addScript")
  /\ \E ok \in BOOLEAN :
       LET f   == pipes[p]
           res == addScript(ok)
       IN pipes' = [pipes EXCEPT ![p] = AfterAdd(Answered(f, res), RepoOf(f), res)]
  /\ UNCHANGED <<config, fs, main, startupIdx, nextId, server, poll, response, call>>

\* AfterRestart in which a failed restart ends the loop
AfterRestartStops(f, rc, restartResult) ==
  LET g == [f EXCEPT !.restartResults =
              Append(@, With(restartResult, "script", rc.restartScripts[f.i]))]
  IN IF restartResult.success /\ g.i < Len(rc.restartScripts)
     THEN Call([g EXCEPT !.i = g.i + 1], "restartScript", rc.restartScripts[g.i + 1])
     ELSE Complete(
            PushStep(g, [step |-> "restart-scripts", results |-> g.restartResults]))

\* AfterRestart in which a failed restart fails the deployment
AfterRestartFatal(f, rc, restartResult) ==
  LET g == [f EXCEPT !.restartResults =
              Append(@, With(restartResult, "script", rc.restartScripts[f.i]))]
  IN IF ~restartResult.success
     THEN Fail(PushStep(g, [step |-> "restart-scripts", results |-> g.restartResults]),
               <<"Restart failed", rc.restartScripts[f.i]>>)
     ELSE IF g.i < Len(rc.restartScripts)
     THEN Call([g EXCEPT !.i = g.i + 1], "restartScript", rc.restartScripts[g.i + 1])
     ELSE Complete(
            PushStep(g, [step |-> "restart-scripts", results |-> g.restartResults]))

\* deploy lines 367-375 and 381-390: restartScript has returned
AfterRestart(f, rc, restartResult) ==
  LET g == [f EXCEPT !.restartResults =
              Append(@, With(restartResult, "script", rc.restartScripts[f.i]))]
  IN IF g.i < Len(rc.restartScripts)
     THEN Call([g EXCEPT !.i = g.i + 1], "restartScript", rc.restartScripts[g.i + 1])
     ELSE Complete(
            PushStep(g, [step |-> "restart-scripts", results |-> g.restartResults]))

RestartScriptReturns(p) ==
  /\ Resume(p, "restartScript")
  /\ \E ok \in BOOLEAN :
       LET f   == pipes[p]
           res == restartScript(ok)
       IN pipes' = [pipes EXCEPT ![p] = AfterRestart(Answered(f, res), RepoOf(f), res)]
  /\ UNCHANGED <<config, fs, main, startupIdx, nextId, server, poll, response, call>>

(***************************************************************************)
(* polling.js startPolling.  poll.at is the repository whose                *)
(* checkForUpdates the tick awaits (0: no tick is in progress);            *)
(* poll.timer says that a setTimeout(poll, interval) is pending;           *)
(* poll.last is what the last update check that settled came to.           *)
(***************************************************************************)
NoStatus == [none |-> TRUE]

NoPolling == [running |-> FALSE, timer |-> FALSE, at |-> 0, last |-> NoStatus]

\* PollFrom without the test of line 23: the loop goes on to the next
\* repository after stop()
PollFromHeedless(pl, k) ==
  IF k <= Len(config.repos)
  THEN [pl EXCEPT !.at = k]
  ELSE [pl EXCEPT !.at = 0, !.timer = IF pl.running THEN TRUE ELSE @]

\* PollFrom that schedules the next tick when it goes to a repository
PollFromEager(pl, k) ==
  IF pl.running /\ k <= Len(config.repos)
  THEN [pl EXCEPT !.at = k, !.timer = TRUE]
  ELSE [pl EXCEPT !.at = 0, !.timer = IF pl.running THEN TRUE ELSE @]

\* polling.js poll, lines 22-23 and 46-49: the for loop from repository k on,
\* up to the next await
PollFrom(pl, k) ==
  IF pl.running /\ k <= Len(config.repos)
  THEN [pl EXCEPT !.at = k]
  ELSE [pl EXCEPT !.at = 0, !.timer = IF pl.running THEN TRUE ELSE @]

\* polling.js poll, line 20
pollTick(pl) == IF ~pl.running THEN pl ELSE PollFrom(pl, 1)

\* polling.js startPolling, lines 16-17 and 53
startPolling ==
  pollTick([running |-> TRUE, timer |-> FALSE, at |-> 0, last |-> NoStatus])

\* What a check can come to, given a working copy.
CheckAnswers == {"git-error", "behind", "current"}

\* gitPull.js checkForUpdates: simpleGit(p) throws outside the try block
\* when the directory is missing
checkForUpdates(at, answer) ==
  IF at = "missing" THEN [threw |-> TRUE]
  ELSE IF at = "dir" \/ answer = "git-error"
       THEN [success |-> FALSE, hasUpdates |-> FALSE, error |-> "git error"]
       ELSE [success |-> TRUE, hasUpdates |-> (answer = "behind")]

\* CheckReturns without the try/catch of lines 25 and 41-43: a check that
\* throws ends the tick
CheckReturnsUncaught ==
  /\ Alive /\ poll.at > 0
  /\ \E answer \in CheckAnswers :
       LET status == checkForUpdates(fs[poll.at], answer)
           threw  == "threw" \in DOMAIN status
           found  == ~threw /\ status.success /\ status.hasUpdates
       IN /\ found => CanDeploy
          /\ pipes' = IF found THEN handleDeploy(pipes, poll.at, NoTrigger, "poll")
                      ELSE pipes
          /\ nextId' = IF found THEN nextId + 1 ELSE nextId
          /\ poll' = IF threw THEN [poll EXCEPT !.at = 0, !.last = status]
                     ELSE PollFrom([poll EXCEPT !.last = status], poll.at + 1)
  /\ UNCHANGED <<config, fs, main, startupIdx, server, response, call>>

\* CheckReturns that deploys after every check that succeeds
CheckReturnsAlways ==
  /\ Alive /\ poll.at > 0
  /\ \E answer \in CheckAnswers :
       LET status == checkForUpdates(fs[poll.at], answer)
           found  == "threw" \notin DOMAIN status /\ status.success
       IN /\ found => CanDeploy
          /\ pipes' = IF found THEN handleDeploy(pipes, poll.at, NoTrigger, "poll")
                      ELSE pipes
          /\ nextId' = IF found THEN nextId + 1 ELSE nextId
          /\ poll' = PollFrom([poll EXCEPT !.last = status], poll.at + 1)
  /\ UNCHANGED <<config, fs, main, startupIdx, server, response, call>>

\* polling.js poll, lines 25-44: checkForUpdates settles for repository
\* poll.at; onUpdate(repo) is handleDeploy(repo) with no trigger info
CheckReturns ==
  /\ Alive /\ poll.at > 0
  /\ \E answer \in CheckAnswers :
       LET status == checkForUpdates(fs[poll.at], answer)
           found  == "threw" \notin DOMAIN status
                     /\ status.success /\ status.hasUpdates
       IN /\ found => CanDeploy
          /\ pipes' = IF found THEN handleDeploy(pipes, poll.at, NoTrigger, "poll")
                      ELSE pipes
          /\ nextId' = IF found THEN nextId + 1 ELSE nextId
          /\ poll' = PollFrom([poll EXCEPT !.last = status], poll.at + 1)
  /\ UNCHANGED <<config, fs, main, startupIdx, server, response, call>>

\* the timer set in line 48 fires: poll() runs
TimerFires ==
  /\ Alive /\ poll.timer
  /\ poll' = pollTick([poll EXCEPT !.timer = FALSE])
  /\ UNCHANGED <<config, fs, main, startupIdx, pipes, nextId, server, response, call>>

\* stop that leaves a pending timer alone
stopKeepingTimer(pl) == [pl EXCEPT !.running = FALSE]

\* polling.js stop, lines 56-63
stop(pl) == [pl EXCEPT !.running = FALSE, !.timer = FALSE]

(***************************************************************************)
(* index.js: the top level.                                                *)
(***************************************************************************)
StartupTrigger == [provider |-> "startup", pusher |-> "system"]

\* StartupFrom in which the webhook server is started before the startup
\* loop
StartupFromServing(ps, k) ==
  /\ startupIdx' = k
  /\ server' = (config.triggerMode \in {"webhook", "both"})
  /\ IF k <= Len(config.repos)
     THEN /\ CanDeploy
          /\ main' = "startup"
          /\ pipes' = handleDeploy(ps, k, StartupTrigger, "startup")
          /\ nextId' = nextId + 1
          /\ UNCHANGED poll
     ELSE /\ main' = "serving"
          /\ pipes' = ps
          /\ poll' = IF config.triggerMode \in {"polling", "both"}
                     THEN startPolling ELSE poll
          /\ UNCHANGED nextId

\* index.js lines 55-76: the startup loop from repository k on, then the
\* start of the trigger producers; ps are the activations there are
StartupFrom(ps, k) ==
  /\ startupIdx' = k
  /\ IF k <= Len(config.repos)
     THEN /\ CanDeploy
          /\ main' = "startup"
          /\ pipes' = handleDeploy(ps, k, StartupTrigger, "startup")
          /\ nextId' = nextId + 1
          /\ UNCHANGED <<server, poll>>
     ELSE /\ main' = "serving"
          /\ pipes' = ps
          /\ server' = (config.triggerMode \in {"webhook", "both"})
          /\ poll' = IF config.triggerMode \in {"polling", "both"}
                     THEN startPolling ELSE poll
          /\ UNCHANGED nextId

\* index.js line 38: pingTaskServer settles (it never throws)
PingReturns ==
  /\ main = "ping"
  /\ StartupFrom(pipes, 1)
  /\ UNCHANGED <<config, fs, response, call>>

\* index.js line 58: the awaited startup deployment has settled.  A
\* rejection is an exception of the top-level module code: the process
\* ends before the trigger producers are started.
StartupResume(p) ==
  /\ main = "startup" /\ p \in DOMAIN pipes
  /\ pipes[p].caller = "startup" /\ ~InFlight(pipes[p])
  /\ IF pipes[p].pc = "returned"
     THEN StartupFrom(Without(pipes, p), startupIdx + 1)
     ELSE /\ main' = "crashed"
          /\ pipes' = Without(pipes, p)
          /\ UNCHANGED <<startupIdx, nextId, server, poll>>
  /\ UNCHANGED <<config, fs, response, call>>

\* Settle in which the outcome of the deployment becomes the response
SettleAnswering(p) ==
  /\ Alive /\ p \in DOMAIN pipes
  /\ pipes[p].caller \in {"webhook", "poll"} /\ ~InFlight(pipes[p])
  /\ pipes' = Without(pipes, p)
  /\ response' = [status |-> 200, message |-> "Deployment finished",
                  method |-> "POST", path |-> "/webhook"]
  /\ UNCHANGED <<config, fs, main, startupIdx, nextId, server, poll, call>>

\* webhook.js lines 198-200, polling.js lines 33-35: the promise of a
\* deployment submitted by a trigger producer has settled; a rejection is
\* logged by the .catch handler
Settle(p) ==
  /\ Alive /\ p \in DOMAIN pipes
  /\ pipes[p].caller \in {"webhook", "poll"} /\ ~InFlight(pipes[p])
  /\ pipes' = Without(pipes, p)
  /\ UNCHANGED <<config, fs, main, startupIdx, nextId, server, poll, response, call>>

\* index.js lines 79-94: SIGINT once the handler is registered
Sigint ==
  /\ main = "serving"
  /\ main' = "exited"
  /\ server' = FALSE
  /\ poll' = IF config.triggerMode \in {"polling", "both"} THEN stop(poll) ELSE poll
  /\ UNCHANGED <<config, fs, startupIdx, pipes, nextId, response, call>>

(***************************************************************************)
(* webhook.js.  A request is [method, path, headers, body]; a header that  *)
(* is not sent reads as null (Absent).  The body is the parsed JSON value: *)
(* [json |-> "invalid"] does not parse, "null" is the JSON null, "scalar"  *)
(* a number, string or array (reading a property of it gives undefined),   *)
(* "object" an object with the fields in `fields`.  The raw body is        *)
(* identified with the parsed value.                                       *)
(***************************************************************************)
Absent == "<absent>"

\* HMAC-SHA256 as a symbolic digest: two digests are equal exactly when key
\* and message are
HmacSha256(key, msg) == [key |-> key, msg |-> msg]

NoSignature == [absent |-> TRUE]

\* the number of characters of a signature header
SigLength(sig) == Len(sig.prefix) + 64

\* crypto timingSafeEqual: throws when the two buffers differ in length
timingSafeEqual(a, b) ==
  IF SigLength(a) # SigLength(b) THEN [threw |-> TRUE] ELSE [equal |-> (a = b)]

\* verifyGitHubSignature without the try/catch around the comparison, a
\* comparison that throws counting as a match
verifyGitHubSignatureUncaught(payload, signature, secret) ==
  IF signature = NoSignature \/ secret = "" THEN secret = ""
  ELSE LET expected == [prefix |-> <<"s","h","a","2","5","6","=">>,
                        digest |-> HmacSha256(secret, payload)]
           cmp == timingSafeEqual(signature, expected)
       IN IF "threw" \in DOMAIN cmp THEN TRUE ELSE cmp.equal

\* webhook.js verifyGitHubSignature, lines 11-21
verifyGitHubSignature(payload, signature, secret) ==
  IF signature = NoSignature \/ secret = "" THEN secret = ""
  ELSE LET expected == [prefix |-> <<"s","h","a","2","5","6","=">>,
                        digest |-> HmacSha256(secret, payload)]
           cmp == timingSafeEqual(signature, expected)
       IN IF "threw" \in DOMAIN cmp THEN FALSE ELSE cmp.equal

\* verifyGitLabToken that lets a request without token pass
verifyGitLabTokenLax(token, secret) ==
  IF secret = "" \/ token = Absent THEN TRUE ELSE token = secret

\* webhook.js verifyGitLabToken, lines 29-32
verifyGitLabToken(token, secret) ==
  IF secret = "" THEN TRUE ELSE token = secret

\* webhook.js verifyGiteaSignature, line 37
verifyGiteaSignature(payload, signature, secret) ==
  verifyGitHubSignature(payload, signature, secret)

\* body.f, for a body that is not null
Has(body, f) == body.json = "object" /\ f \in DOMAIN body.fields

\* String.prototype.replace('refs/heads/', ''), on a ref given as its list of
\* path segments: the first place where the segments refs, heads occur is cut
\* out
StripHeads(ref) ==
  LET at == {k \in 1..(Len(ref) - 2) : ref[k] = "refs" /\ ref[k + 1] = "heads"} IN
  IF at = {} THEN ref
  ELSE SubSeq(ref, 1, Min(at) - 1) \o SubSeq(ref, Min(at) + 2, Len(ref))

\* const ref = body.ref || ''; const branch = ref.replace('refs/heads/', '')
BranchOf(body) == IF Has(body, "ref") THEN StripHeads(body.fields.ref) ELSE <<>>

\* body.o?.f || null
Sub(body, o, f) ==
  IF Has(body, o) /\ f \in DOMAIN body.fields[o] THEN body.fields[o][f] ELSE Absent

\* webhook.js parseGitHubPush, lines 44-58 (of the trigger, the fields that
\* dispatch reads and the provider tag)
parseGitHubPush(body) ==
  [provider |-> "github", event |-> "push", branch |-> BranchOf(body),
   repository |-> Sub(body, "repository", "name"),
   fullName |-> Sub(body, "repository", "full_name")]

\* webhook.js parseGitLabPush, lines 65-79
parseGitLabPush(body) ==
  [provider |-> "gitlab", event |-> "push", branch |-> BranchOf(body),
   repository |-> IF Sub(body, "project", "name") # Absent
                  THEN Sub(body, "project", "name")
                  ELSE Sub(body, "repository", "name"),
   fullName |-> Sub(body, "project", "path_with_namespace")]

\* webhook.js parseGiteaPush, lines 86-100
parseGiteaPush(body) ==
  [provider |-> "gitea", event |-> "push", branch |-> BranchOf(body),
   repository |-> Sub(body, "repository", "name"),
   fullName |-> Sub(body, "repository", "full_name")]

NoPush == [provider |-> Absent]

\* Examine that verifies a Gitea request by its X-Hub-Signature-256 header
ExamineGiteaByHub(req, secret) ==
  LET h == req.headers
      body == req.body
  IN IF h.githubEvent # Absent \/ req.path = "/webhook/github"
     THEN [provider |-> "github",
           isValid |-> verifyGitHubSignature(body, h.hubSignature, secret),
           pushInfo |-> IF h.githubEvent = "push" \/ Has(body, "ref")
                        THEN parseGitHubPush(body) ELSE NoPush]
     ELSE IF h.gitlabToken # Absent \/ req.path = "/webhook/gitlab"
     THEN [provider |-> "gitlab",
           isValid |-> verifyGitLabToken(h.gitlabToken, secret),
           pushInfo |-> IF (Has(body, "object_kind")
                            /\ body.fields.object_kind = "push")
                           \/ Has(body, "ref")
                        THEN parseGitLabPush(body) ELSE NoPush]
     ELSE IF h.giteaEvent # Absent \/ req.path = "/webhook/gitea"
     THEN [provider |-> "gitea",
           isValid |-> verifyGiteaSignature(body, h.hubSignature, secret),
           pushInfo |-> IF h.giteaEvent = "push" \/ Has(body, "ref")
                        THEN parseGiteaPush(body) ELSE NoPush]
     ELSE [provider |-> "generic",
           isValid |-> TRUE,
           pushInfo |-> IF Has(body, "ref") THEN parseGitHubPush(body) ELSE NoPush]

\* webhook.js lines 131-165: the provider is detected, the request verified
\* and a push parsed; the body is not null
Examine(req, secret) ==
  LET h == req.headers
      body == req.body
  IN IF h.githubEvent # Absent \/ req.path = "/webhook/github"
     THEN [provider |-> "github",
           isValid |-> verifyGitHubSignature(body, h.hubSignature, secret),
           pushInfo |-> IF h.githubEvent = "push" \/ Has(body, "ref")
                        THEN parseGitHubPush(body) ELSE NoPush]
     ELSE IF h.gitlabToken # Absent \/ req.path = "/webhook/gitlab"
     THEN [provider |-> "gitlab",
           isValid |-> verifyGitLabToken(h.gitlabToken, secret),
           pushInfo |-> IF (Has(body, "object_kind")
                            /\ body.fields.object_kind = "push")
                           \/ Has(body, "ref")
                        THEN parseGitLabPush(body) ELSE NoPush]
     ELSE IF h.giteaEvent # Absent \/ req.path = "/webhook/gitea"
     THEN [provider |-> "gitea",
           isValid |-> verifyGiteaSignature(body, h.giteaSignature, secret),
           pushInfo |-> IF h.giteaEvent = "push" \/ Has(body, "ref")
                        THEN parseGiteaPush(body) ELSE NoPush]
     ELSE [provider |-> "generic",
           isValid |-> TRUE,
           pushInfo |-> IF Has(body, "ref") THEN parseGitHubPush(body) ELSE NoPush]

\* MatchingRepo that compares the names only
MatchingRepoByName(pushInfo) ==
  LET hits == {k \in DOMAIN config.repos :
                 \/ config.repos[k].name = pushInfo.repository
                 \/ config.repos[k].name = pushInfo.fullName}
  IN IF hits = {} THEN 0 ELSE Min(hits)

\* webhook.js lines 179-187: config.repos.find(...), 0 when nothing matches
MatchingRepo(pushInfo) ==
  LET hits == {k \in DOMAIN config.repos :
                 /\ config.repos[k].branch = pushInfo.branch
                 /\ \/ config.repos[k].name = pushInfo.repository
                    \/ config.repos[k].name = pushInfo.fullName}
  IN IF hits = {} THEN 0 ELSE Min(hits)

WebhookPaths ==
  {"/webhook", "/webhook/github", "/webhook/gitlab", "/webhook/gitea", "/webhooks"}

\* url.pathname.startsWith('/webhook')
StartsWithWebhook(path) == path \in WebhookPaths

\* webhook.js fetch, lines 113-211: what the handler answers, and the
\* repository it triggers a deployment for (0: none).  Reading a property of
\* a null body throws: the handler's promise is rejected, which the server
\* answers with 500.
Handle(req) ==
  IF req.path = "/health" /\ req.method = "GET"
  THEN [status |-> 200, message |-> "ok", repo |-> 0]
  ELSE IF req.method = "POST" /\ StartsWithWebhook(req.path)
  THEN IF req.body.json = "invalid"
       THEN [status |-> 400, message |-> "Invalid JSON", repo |-> 0]
       ELSE IF req.body.json = "null"
       THEN [status |-> 500, message |-> "TypeError", repo |-> 0]
       ELSE LET x == Examine(req, config.secret) IN
            IF ~x.isValid
            THEN [status |-> 401, message |-> "Invalid signature", repo |-> 0]
            ELSE IF x.pushInfo = NoPush
            THEN [status |-> 200, message |-> "Event ignored (not a push)",
                  repo |-> 0]
            ELSE IF MatchingRepo(x.pushInfo) = 0
            THEN [status |-> 200, message |-> "No matching repo configuration",
                  repo |-> 0]
            ELSE [status |-> 200, message |-> "Deployment triggered",
                  repo |-> MatchingRepo(x.pushInfo), pushInfo |-> x.pushInfo]
  ELSE [status |-> 404, message |-> "Not found", repo |-> 0]

\* Whether req carries a credential for secret: the HMAC-SHA256 of its body
\* under secret, in either signature header, or secret as the GitLab token.
\* Request records it in the activation a request starts.
Credential(req, secret) ==
  LET mac == [prefix |-> <<"s","h","a","2","5","6","=">>,
              digest |-> HmacSha256(secret, req.body)]
  IN \/ req.headers.hubSignature = mac
     \/ req.headers.giteaSignature = mac
     \/ req.headers.gitlabToken = secret

\* The event a request declares itself to be: the event header of its
\* provider, or object_kind for GitLab; Absent when it declares none.
\* Request records it in the activation a request starts.
DeclaredEvent(req) ==
  LET provider == Examine(req, config.secret).provider IN
  CASE provider = "github" -> req.headers.githubEvent
    [] provider = "gitea"  -> req.headers.giteaEvent
    [] provider = "gitlab" -> IF Has(req.body, "object_kind")
                              THEN req.body.fields.object_kind ELSE Absent
    [] OTHER -> Absent

\* One request is served: from the arrival of its body (line 123) to the
\* response.  onPush is handleDeploy; its promise is not awaited.
Request(req) ==
  /\ Alive /\ server
  /\ LET out == Handle(req) IN
     /\ out.repo # 0 => CanDeploy
     /\ response' = [status |-> out.status, message |-> out.message,
                      method |-> req.method, path |-> req.path]
     /\ pipes' = IF out.repo # 0
                 THEN LET ps == handleDeploy(pipes, out.repo, out.pushInfo, "webhook")
                      IN [ps EXCEPT ![nextId] =
                            With(With(@, "credential", Credential(req, config.secret)),
                                 "event", DeclaredEvent(req))]
                 ELSE pipes
     /\ nextId' = IF out.repo # 0 THEN nextId + 1 ELSE nextId
  /\ UNCHANGED <<config, fs, main, startupIdx, server, poll, call>>

(***************************************************************************)
(* Configurations.                                                         *)
(***************************************************************************)
\* branch names and refs are lists of path segments
Main == <<"main">>
Dev == <<"dev">>

\* every shape of repository configuration within the bounds
RepoShapes ==
  [repoUrl : BOOLEAN, dependencies : DepTypes, build : BuildConfigs,
   restartScripts : {Scripts(n) : n \in 0..MaxScripts},
   registerScripts : {Scripts(n) : n \in 0..MaxScripts}]

Repo(name, branch, shape) ==
  With(With(shape, "name", name), "branch", branch)

NoResponse == [status |-> 0]

\* no function has been applied on its own
NoCall == [fn |-> "none"]

\* the state when loadConfig has returned cfg and the top level awaits
\* pingTaskServer
InitWith(cfg) ==
  /\ config = cfg
  /\ fs \in [1..Len(cfg.repos) -> FsStates]
  /\ main = "ping"
  /\ startupIdx = 0
  /\ pipes = <<>>
  /\ nextId = 1
  /\ server = FALSE
  /\ poll = NoPolling
  /\ response = NoResponse
  /\ call = NoCall

Step(p) ==
  \/ EnsureRepoReturns(p)
  \/ GitPullReturns(p)
  \/ InstallReturns(p)
  \/ StopScriptReturns(p)
  \/ BuildReturns(p)
  \/ AddScriptReturns(p)
  \/ RestartScriptReturns(p)

(***************************************************************************)
(* DeploySpec: one repository of any shape, deployed by the startup pass.  *)
(***************************************************************************)
DeployInit ==
  \E shape \in RepoShapes :
    InitWith([triggerMode |-> "webhook", secret |-> "",
              repos |-> <<Repo("app", Main, shape)>>])

DeployNext ==
  \/ PingReturns
  \/ \E p \in 1..MaxDeploys : Step(p)
  \/ \E p \in 1..MaxDeploys : StartupResume(p)

DeploySpec == DeployInit /\ [][DeployNext]_vars

(***************************************************************************)
(* Requests.                                                               *)
(***************************************************************************)
NoHeaders ==
  [githubEvent |-> Absent, gitlabToken |-> Absent, giteaEvent |-> Absent,
   hubSignature |-> NoSignature, giteaSignature |-> NoSignature]

Secrets == {"s3cret", "wrong"}

Sha256Prefix == <<"s","h","a","2","5","6","=">>

\* the signature header GitHub computes for body under key
Signed(key, body) == [prefix |-> Sha256Prefix, digest |-> HmacSha256(key, body)]

\* signature headers a request with this body may carry: none, the header
\* for either key, and the bare hex digest without the sha256= prefix
Signatures(body) ==
  {NoSignature, Signed("s3cret", body), Signed("wrong", body),
   [prefix |-> <<>>, digest |-> HmacSha256("s3cret", body)]}

Object(fields) == [json |-> "object", fields |-> fields]

HeadsMain == <<"refs", "heads", "main">>

\* a push to refs/heads/main of repository app
PushBody == Object([ref |-> HeadsMain, repository |-> [name |-> "app"]])

\* the payload of GitHub's create event for the branch main of app: ref is
\* the bare branch name
CreateBody ==
  Object([ref |-> <<"main">>, ref_type |-> "branch", repository |-> [name |-> "app"]])

KeyBodies ==
  {[json |-> "invalid"], [json |-> "null"], [json |-> "scalar"],
   Object([x \in {} |-> 0]), PushBody}

\* bodies in the shape GitHub and Gitea send
HubBodies ==
  KeyBodies
  \cup {Object([ref |-> HeadsMain]),
        Object([repository |-> [name |-> "app"]]),
        Object([ref |-> HeadsMain,
                repository |-> [name |-> "app", full_name |-> "org/app"]]),
        Object([ref |-> <<"refs", "heads", "dev">>, repository |-> [name |-> "app"]]),
        Object([ref |-> <<"refs", "tags", "main">>, repository |-> [name |-> "app"]]),
        Object([ref |-> <<"refs", "tags", "refs", "heads", "main">>,
                repository |-> [name |-> "app"]])}

Project == [name |-> "app", path_with_namespace |-> "org/app"]

\* bodies in the shape GitLab sends
LabBodies ==
  HubBodies
  \cup {Object([object_kind |-> "push"]),
        Object([object_kind |-> "tag_push"]),
        Object([ref |-> HeadsMain, project |-> Project]),
        Object([ref |-> HeadsMain, object_kind |-> "push", project |-> Project])}

Post(path, headers, body) ==
  [method |-> "POST", path |-> path, headers |-> headers, body |-> body]

\* requests the GitHub branch of the handler serves
GitHubRequests ==
  UNION {{Post("/webhook/github",
               [NoHeaders EXCEPT !.githubEvent = "push", !.hubSignature = sig], body) :
            sig \in Signatures(body)} : body \in HubBodies}
  \cup UNION {{Post(pe[1], [NoHeaders EXCEPT !.githubEvent = pe[2],
                                             !.hubSignature = sig], body) :
                 pe \in {<<"/webhook/github", Absent>>, <<"/webhook", "push">>,
                         <<"/webhook", "create">>, <<"/webhook/gitlab", "push">>},
                 sig \in {NoSignature, Signed("s3cret", body)}} :
                  body \in KeyBodies \cup {CreateBody}}

\* requests the GitLab branch serves
GitLabRequests ==
  {Post("/webhook/gitlab", [NoHeaders EXCEPT !.gitlabToken = t], body) :
     t \in Secrets \cup {Absent}, body \in LabBodies}
  \cup {Post("/webhook", [NoHeaders EXCEPT !.gitlabToken = t], body) :
     t \in Secrets, body \in KeyBodies}

\* requests the Gitea branch serves
GiteaRequests ==
  UNION {{Post("/webhook/gitea",
               [NoHeaders EXCEPT !.giteaEvent = "push", !.giteaSignature = sig], body) :
            sig \in Signatures(body)} : body \in HubBodies}
  \cup UNION {{Post("/webhook/gitea",
                    [NoHeaders EXCEPT !.giteaEvent = "push", !.giteaSignature = sig,
                                      !.hubSignature = Signed("s3cret", body)], body) :
                 sig \in {NoSignature, Signed("s3cret", body)}} : body \in KeyBodies}
  \cup UNION {{Post(pe[1], [NoHeaders EXCEPT !.giteaEvent = pe[2],
                                             !.giteaSignature = sig], body) :
                 pe \in {<<"/webhook/gitea", Absent>>, <<"/webhook", "push">>},
                 sig \in {NoSignature, Signed("s3cret", body)}} : body \in KeyBodies}

\* requests with no provider header and no provider path
GenericRequests ==
  {Post(path, NoHeaders, body) : path \in {"/webhook", "/webhooks"}, body \in HubBodies}

\* requests that are no POST to a path starting with /webhook
OtherRequests ==
  {[method |-> m, path |-> path, headers |-> NoHeaders, body |-> [json |-> "invalid"]] :
     m \in {"GET", "POST"}, path \in {"/health", "/webhook", "/"}}
  \ {Post("/webhook", NoHeaders, [json |-> "invalid"])}

Requests ==
  GitHubRequests \cup GitLabRequests \cup GiteaRequests \cup GenericRequests
  \cup OtherRequests

(***************************************************************************)
(* Spec: the whole program.  The repositories have no dependencies, build  *)
(* commands or scripts configured, so that an activation awaits ensureRepo *)
(* (with a URL) and gitPull only.                                          *)
(***************************************************************************)
PlainShapes ==
  [repoUrl : BOOLEAN, dependencies : {"absent"}, build : {NoBuild},
   restartScripts : {<<>>}, registerScripts : {<<>>}]

RepoNames == <<"app", "org/app", "api", "web">>

\* repository lists of n entries, the k-th named RepoNames[k]
RepoLists(n, branches, shapes) ==
  {[k \in 1..n |-> Repo(RepoNames[k], bs[k], ss[k])] :
     bs \in [1..n -> branches], ss \in [1..n -> shapes]}

\* the push PushBody as GitHub sends it, signed with key s
GitHubPush(s) ==
  Post("/webhook/github",
       [NoHeaders EXCEPT !.githubEvent = "push", !.hubSignature = Signed(s, PushBody)],
       PushBody)

TriggerModes == {"webhook", "polling", "both"}

Init ==
  \E mode \in TriggerModes, n \in 1..MaxRepos :
    \E repos \in RepoLists(n, {Main}, PlainShapes) :
      InitWith([triggerMode |-> mode, secret |-> "s3cret", repos |-> repos])

Next ==
  \/ PingReturns
  \/ \E p \in 1..MaxDeploys : EnsureRepoReturns(p)
  \/ \E p \in 1..MaxDeploys : GitPullReturns(p)
  \/ \E p \in 1..MaxDeploys : StartupResume(p)
  \/ \E p \in 1..MaxDeploys : Settle(p)
  \/ \E s \in Secrets : Request(GitHubPush(s))
  \/ CheckReturns
  \/ TimerFires
  \/ Sigint

Spec == Init /\ [][Next]_vars

(***************************************************************************)
(* WebhookSpec: the webhook server under every request of Requests.        *)
(***************************************************************************)
WebhookInit ==
  \E secret \in {"", "s3cret"} :
    \E repos \in RepoLists(MaxRepos, {Main, Dev}, {sh \in PlainShapes : ~sh.repoUrl}) :
      /\ InitWith([triggerMode |-> "webhook", secret |-> secret, repos |-> repos])
      /\ \A k \in 1..MaxRepos : fs[k] = "repo"

WebhookNext ==
  \/ PingReturns
  \/ \E p \in 1..MaxDeploys : GitPullReturns(p)
  \/ \E p \in 1..MaxDeploys : StartupResume(p)
  \/ \E p \in 1..MaxDeploys : Settle(p)
  \/ \E req \in Requests : Request(req)

WebhookSpec == WebhookInit /\ [][WebhookNext]_vars

(***************************************************************************)
(* GiteaSpec: the webhook server under the requests of GiteaRequests.      *)
(***************************************************************************)
GiteaNext ==
  \/ PingReturns
  \/ \E p \in 1..MaxDeploys : GitPullReturns(p)
  \/ \E p \in 1..MaxDeploys : StartupResume(p)
  \/ \E p \in 1..MaxDeploys : Settle(p)
  \/ \E req \in GiteaRequests : Request(req)

GiteaSpec == WebhookInit /\ [][GiteaNext]_vars

(***************************************************************************)
(* VerifySpec: the verification functions of webhook.js, each applied to   *)
(* every payload, header value and secret of the sets below; call holds    *)
(* the arguments and the result of the last application.                   *)
(***************************************************************************)
\* "" is no secret configured
VerifySecrets == {""} \cup Secrets

\* header values for a payload: those of Signatures, the signature of
\* another payload, and the right digest behind another prefix of the same
\* length
SignatureHeaders(payload) ==
  Signatures(payload)
  \cup {Signed("s3cret", other) : other \in KeyBodies}
  \cup {[prefix |-> <<"s","h","a","5","1","2","=">>,
         digest |-> HmacSha256("s3cret", payload)]}

VerifyInit ==
  /\ InitWith([triggerMode |-> "webhook", secret |-> "",
               repos |-> <<Repo("app", Main, CHOOSE sh \in PlainShapes : ~sh.repoUrl)>>])
  /\ fs = <<"repo">>

Idle == UNCHANGED <<config, fs, main, startupIdx, pipes, nextId, server, poll, response>>

VerifyGitHub ==
  /\ \E payload \in HubBodies, secret \in VerifySecrets :
       \E signature \in SignatureHeaders(payload) :
         call' = [fn |-> "verifyGitHubSignature", payload |-> payload,
                  signature |-> signature, secret |-> secret,
                  result |-> verifyGitHubSignature(payload, signature, secret)]
  /\ Idle

VerifyGitea ==
  /\ \E payload \in HubBodies, secret \in VerifySecrets :
       \E signature \in SignatureHeaders(payload) :
         call' = [fn |-> "verifyGiteaSignature", payload |-> payload,
                  signature |-> signature, secret |-> secret,
                  result |-> verifyGiteaSignature(payload, signature, secret)]
  /\ Idle

VerifyGitLab ==
  /\ \E token \in Secrets \cup {Absent}, secret \in VerifySecrets :
       call' = [fn |-> "verifyGitLabToken", token |-> token, secret |-> secret,
                result |-> verifyGitLabToken(token, secret)]
  /\ Idle

VerifyNext == VerifyGitHub \/ VerifyGitea \/ VerifyGitLab

VerifySpec == VerifyInit /\ [][VerifyNext]_vars

(***************************************************************************)
(* PollSpec: the program in polling mode, with a holder of the controller  *)
(* that startPolling returns calling its stop() at any moment (index.js    *)
(* itself calls it from the SIGINT handler only, right before it exits).   *)
(* An update check that has been started settles: checkForUpdates returns  *)
(* or throws.                                                              *)
(***************************************************************************)
PollInit ==
  \E n \in 1..MaxRepos :
    \E repos \in RepoLists(n, {Main}, PlainShapes) :
      InitWith([triggerMode |-> "polling", secret |-> "s3cret", repos |-> repos])

\* the controller's stop() is called
StopPolling ==
  /\ main = "serving" /\ poll.running
  /\ poll' = stop(poll)
  /\ UNCHANGED <<config, fs, main, startupIdx, pipes, nextId, server, response, call>>

PollNext ==
  \/ PingReturns
  \/ \E p \in 1..MaxDeploys : EnsureRepoReturns(p)
  \/ \E p \in 1..MaxDeploys : GitPullReturns(p)
  \/ \E p \in 1..MaxDeploys : StartupResume(p)
  \/ \E p \in 1..MaxDeploys : Settle(p)
  \/ CheckReturns
  \/ TimerFires
  \/ StopPolling

PollSpec == PollInit /\ [][PollNext]_vars /\ WF_vars(CheckReturns)

(***************************************************************************)
(* ParseSpec: the three parsers of webhook.js, each applied to payloads    *)
(* with every ref of at most MaxRefLen segments, and to payloads without   *)
(* a ref, once in a behaviour; call holds the payload and the result of    *)
(* the application.                                                        *)
(***************************************************************************)
RefWords == {"refs", "heads", "tags", "main"}

Refs == SeqsUpTo(RefWords, MaxRefLen)

ParseBodies ==
  {Object([repository |-> [name |-> "app"]])}
  \cup {Object([ref |-> ref, repository |-> [name |-> "app"]]) : ref \in Refs \ {<<>>}}

ParseGitHub ==
  /\ call = NoCall
  /\ \E body \in ParseBodies :
       call' = [fn |-> "parseGitHubPush", body |-> body, result |-> parseGitHubPush(body)]
  /\ Idle

ParseGitLab ==
  /\ call = NoCall
  /\ \E body \in ParseBodies :
       call' = [fn |-> "parseGitLabPush", body |-> body, result |-> parseGitLabPush(body)]
  /\ Idle

ParseGitea ==
  /\ call = NoCall
  /\ \E body \in ParseBodies :
       call' = [fn |-> "parseGiteaPush", body |-> body, result |-> parseGiteaPush(body)]
  /\ Idle

ParseNext == ParseGitHub \/ ParseGitLab \/ ParseGitea

ParseSpec == VerifyInit /\ [][ParseNext]_vars

(***************************************************************************)
(* LoadSpec: the program from the reading of its configuration file, in    *)
(* webhook mode.  Before loadConfig has returned, config holds what the    *)
(* YAML parser made of the file.  A file names its repositories as it      *)
(* pleases: two entries may have the same name and branch.                 *)
(***************************************************************************)
NoFile == [missing |-> TRUE]

\* repository lists whose names are chosen freely among names
NamedLists(n, names, branches, shapes) ==
  {[k \in 1..n |-> Repo(ns[k], bs[k], ss[k])] :
     ns \in [1..n -> names], bs \in [1..n -> branches], ss \in [1..n -> shapes]}

\* what there can be on disk: no file, a file without a repos list (or with
\* repos that is no list), a file with a list of repositories, with or
\* without a webhook section
ConfigFiles ==
  {NoFile, [secret |-> "s3cret"], [reposOther |-> "a string", secret |-> "s3cret"]}
  \cup UNION {{[repos |-> repos], [repos |-> repos, secret |-> "s3cret"]} :
                repos \in UNION {NamedLists(n, {"app", "api"}, {Main},
                                            {sh \in PlainShapes : ~sh.repoUrl}) :
                                   n \in 1..MaxRepos}}

\* loadConfig that takes a missing repository list for an empty one
loadConfigLenient(file) ==
  IF "missing" \in DOMAIN file
  THEN [threw |-> "No configuration file found"]
  ELSE [triggerMode |-> "webhook",
        secret |-> IF "secret" \in DOMAIN file THEN file.secret ELSE "",
        repos |-> IF "repos" \in DOMAIN file THEN file.repos ELSE <<>>]

\* configLoader.js loadConfig
loadConfig(file) ==
  IF "missing" \in DOMAIN file
  THEN [threw |-> "No configuration file found"]
  ELSE IF "repos" \notin DOMAIN file
       THEN [threw |-> "Configuration must include a repos array"]
       ELSE [triggerMode |-> IF "triggerMode" \in DOMAIN file /\ file.triggerMode # ""
                             THEN file.triggerMode ELSE "webhook",
             secret |-> IF "secret" \in DOMAIN file THEN file.secret ELSE "",
             repos |-> file.repos]

LoadInit ==
  \E file \in ConfigFiles :
    /\ config = file
    /\ fs \in [1..(IF "repos" \in DOMAIN file THEN Len(file.repos) ELSE 0) ->
                 {"repo", "missing"}]
    /\ main = "load"
    /\ startupIdx = 0
    /\ pipes = <<>>
    /\ nextId = 1
    /\ server = FALSE
    /\ poll = NoPolling
    /\ response = NoResponse
    /\ call = NoCall

\* index.js lines 21-34: loadConfig returns, or throws and the process exits
LoadConfig ==
  /\ main = "load"
  /\ LET loaded == loadConfig(config) IN
     IF "threw" \in DOMAIN loaded
     THEN main' = "exited" /\ config' = config
     ELSE main' = "ping" /\ config' = loaded
  /\ UNCHANGED <<fs, startupIdx, pipes, nextId, server, poll, response, call>>

LoadNext ==
  \/ LoadConfig
  \/ PingReturns
  \/ \E p \in 1..MaxDeploys : GitPullReturns(p)
  \/ \E p \in 1..MaxDeploys : StartupResume(p)
  \/ \E p \in 1..MaxDeploys : Settle(p)
  \/ \E s \in Secrets : Request(GitHubPush(s))

LoadSpec == LoadInit /\ [][LoadNext]_vars

(***************************************************************************)
(* RerunSpec: one existing working copy with dependencies, a build command *)
(* and a script to restart (or without), deployed at startup and then by   *)
(* pushes that GitHub delivers, and delivers again.                        *)
(***************************************************************************)
RerunShapes ==
  [repoUrl : {FALSE}, dependencies : {"none", "npm"},
   build : {NoBuild, [kind |-> "string", command |-> "make"]},
   restartScripts : {<<>>, Scripts(1)}, registerScripts : {<<>>}]

RerunInit ==
  \E shape \in RerunShapes :
    /\ InitWith([triggerMode |-> "webhook", secret |-> "s3cret",
                 repos |-> <<Repo("app", Main, shape)>>])
    /\ fs = <<"repo">>

RerunNext ==
  \/ PingReturns
  \/ \E p \in 1..MaxDeploys : GitPullReturns(p)
  \/ \E p \in 1..MaxDeploys : InstallReturns(p)
  \/ \E p \in 1..MaxDeploys : StopScriptReturns(p)
  \/ \E p \in 1..MaxDeploys : BuildReturns(p)
  \/ \E p \in 1..MaxDeploys : RestartScriptReturns(p)
  \/ \E p \in 1..MaxDeploys : StartupResume(p)
  \/ \E p \in 1..MaxDeploys : Settle(p)
  \/ Request(GitHubPush("s3cret"))

RerunSpec == RerunInit /\ [][RerunNext]_vars

(***************************************************************************)
(* Properties.  They are stated over the activations in pipes: the log of  *)
(* calls of an activation says which steps it has executed and how each    *)
(* call ended, results is what its caller receives.                        *)
(***************************************************************************)
\* positions in the log of f of the calls of the operations ops
CallsOf(f, ops) == {k \in DOMAIN f.calls : f.calls[k].op \in ops}

\* the call c has settled and did not succeed
Failed(c) == "success" \in DOMAIN c /\ ~c.success

StepNames(f) == [k \in DOMAIN f.results.steps |-> f.results.steps[k].step]

\* the steps after the short-circuit check
LaterOps ==
  {"installDependencies", "stopScript", "execAsync", "addScript", "restartScript"}

\* the steps whose failure is fatal, and the process-manager steps
FatalOps == {"ensureRepo", "gitPull", "installDependencies", "execAsync"}
LifecycleOps == {"stopScript", "addScript", "restartScript"}

(***************************************************************************)
(* Serialization per repository (Spec).                                    *)
(***************************************************************************)
\* C1: for every repository at most one pipeline execution is in flight at
\* any time, whatever the interleaving of webhook, poll and startup
\* submissions.
C1_AtMostOneInFlight ==
  \A r \in DOMAIN config.repos : Cardinality(Running(pipes, r)) <= 1

\* C2: a trigger submitted for a repository whose pipeline is running does
\* not start a pipeline (it becomes the repository's queued trigger): no step
\* taken while a pipeline of r is running adds a running pipeline of r.
C2_QueuedWhileRunning ==
  [][\A r \in DOMAIN config.repos :
       Running(pipes, r) # {} => Running(pipes', r) \subseteq Running(pipes, r)]_vars

\* C3: the pipeline of a trigger submitted while another pipeline of its
\* repository was running is executed after and not during that pipeline: as
\* long as it runs, none of the pipelines that were running at its submission
\* is still running.
C3_AfterNotDuring ==
  \A p \in DOMAIN pipes :
    InFlight(pipes[p]) =>
      \A q \in pipes[p].during : ~(q \in DOMAIN pipes /\ InFlight(pipes[q]))

(***************************************************************************)
(* The pipeline (DeploySpec).                                              *)
(***************************************************************************)
\* the git-pull step of f succeeded and reported no change
PulledUnchanged(f) ==
  \E k \in DOMAIN f.results.steps :
    LET s == f.results.steps[k] IN s.step = "git-pull" /\ s.success /\ ~s.changed

\* the ensure-repo step of f cloned the repository
FreshClone(f) ==
  \E k \in DOMAIN f.results.steps :
    LET s == f.results.steps[k] IN s.step = "ensure-repo" /\ Truthy(s, "cloned")

SkipCase(f) == PulledUnchanged(f) /\ ~FreshClone(f)

\* C4: if Pull succeeds without change and EnsureRepo did not clone, the
\* pipeline has terminated with skipped = true and success = true and none of
\* InstallDependencies, StopScripts, Build, RegisterScripts, RestartScripts
\* has been executed.
C4_ShortCircuit ==
  \A p \in DOMAIN pipes :
    LET f == pipes[p] IN
    SkipCase(f) =>
      /\ f.pc = "returned"
      /\ Truthy(f.results, "skipped")
      /\ f.results.success = TRUE
      /\ CallsOf(f, LaterOps) = {}

\* the short circuit is taken by a repository with a URL, dependencies, build
\* commands and scripts configured
C4_Witness ==
  \E p \in DOMAIN pipes :
    LET f == pipes[p] IN
    /\ SkipCase(f) /\ f.pc = "returned"
    /\ RepoOf(f).repoUrl /\ RepoOf(f).dependencies = "npm"
    /\ getBuildCommands(RepoOf(f)) # <<>>
    /\ Len(RepoOf(f).restartScripts) > 0 /\ Len(RepoOf(f).registerScripts) > 0

FatalFailure(f) == \E k \in CallsOf(f, FatalOps) : Failed(f.calls[k])

\* the name of the step that reports the calls of a process-manager operation
StepOf(op) ==
  CASE op = "stopScript"    -> "stop-scripts"
    [] op = "addScript"     -> "register-scripts"
    [] op = "restartScript" -> "restart-scripts"

\* the failed call c is recorded, for its script, in the results of its step
Recorded(f, c) ==
  \E k \in DOMAIN f.results.steps :
    LET s == f.results.steps[k] IN
    /\ s.step = StepOf(c.op) /\ "results" \in DOMAIN s
    /\ \E j \in DOMAIN s.results : s.results[j].script = c.arg /\ ~s.results[j].success

RecordedFailures(f, ops) ==
  \A k \in CallsOf(f, ops) : Failed(f.calls[k]) => Recorded(f, f.calls[k])

PipelineSteps ==
  {"ensure-repo", "git-pull", "install-deps", "build", "register-scripts",
   "restart-scripts"}

\* C5: the terminal success flag is false only if EnsureRepo, Pull,
\* InstallDependencies or a Build command failed; a pipeline whose only
\* failures are StopScripts, RegisterScripts or RestartScripts entries ends
\* with success = true and has each of those failures recorded per entry in
\* the step results.
C5_LifecycleFailuresRecorded ==
  \A p \in DOMAIN pipes :
    LET f == pipes[p] IN
    f.pc = "returned" =>
      /\ f.results.success = FALSE => FatalFailure(f)
      /\ ~FatalFailure(f) =>
           f.results.success = TRUE /\ RecordedFailures(f, LifecycleOps)

\* C5, as the code has it: the success flag is as stated, the failures of
\* RegisterScripts and RestartScripts are recorded per entry, and StopScripts
\* has no entry in the steps list (its failures are logged only).
C5_StopFailuresUnrecorded ==
  \A p \in DOMAIN pipes :
    LET f == pipes[p] IN
    f.pc = "returned" =>
      /\ f.results.success = FALSE => FatalFailure(f)
      /\ ~FatalFailure(f) =>
           /\ f.results.success = TRUE
           /\ RecordedFailures(f, {"addScript", "restartScript"})
      /\ \A k \in DOMAIN f.results.steps : f.results.steps[k].step \in PipelineSteps

\* a pipeline has ended with success = true after a failed stop, a failed
\* registration and a failed restart
C5_Witness ==
  \E p \in DOMAIN pipes :
    LET f == pipes[p] IN
    /\ f.pc = "returned" /\ f.results.success = TRUE
    /\ \A op \in LifecycleOps : \E k \in CallsOf(f, {op}) : Failed(f.calls[k])

\* the build commands f has executed, in the order of their execution
ExecCalls(f) == SelectSeq(f.calls, LAMBDA c : c.op = "execAsync")

\* C6: when build command k is the first to fail, commands 1..k-1 have been
\* executed in declared order, no command after k is executed, RegisterScripts
\* and RestartScripts are not executed, and the pipeline has terminated with
\* success = false and an error naming command k.
C6_BuildFailure ==
  \A p \in DOMAIN pipes :
    LET f    == pipes[p]
        x    == ExecCalls(f)
        cmds == getBuildCommands(RepoOf(f))
    IN \A k \in DOMAIN x :
         Failed(x[k]) =>
           /\ Len(x) = k /\ k <= Len(cmds)
           /\ \A j \in 1..k : x[j].arg = cmds[j]
           /\ \A j \in 1..(k - 1) : x[j].success
           /\ CallsOf(f, {"addScript", "restartScript"}) = {}
           /\ f.pc = "returned" /\ f.results.success = FALSE
           /\ f.results.error = <<"Build failed", cmds[k]>>

\* after a fresh clone, with scripts to register and to restart, the first of
\* two different build commands succeeded and the second failed
C6_Witness ==
  \E p \in DOMAIN pipes :
    LET f == pipes[p]
        x == ExecCalls(f)
    IN /\ Len(x) = 2 /\ x[1].arg # x[2].arg
       /\ ~Failed(x[1]) /\ Failed(x[2])
       /\ f.wasCloned
       /\ Len(RepoOf(f).registerScripts) > 0 /\ Len(RepoOf(f).restartScripts) > 0

\* C7: if EnsureRepo fails, or Pull fails, the pipeline aborts with
\* success = false and the failed call is the last call it has made: no later
\* step is executed, and no Pull after a failed EnsureRepo.
C7_AbortOnRepoFailure ==
  \A p \in DOMAIN pipes :
    LET f == pipes[p] IN
    \A k \in CallsOf(f, {"ensureRepo", "gitPull"}) :
      Failed(f.calls[k]) =>
        /\ k = Len(f.calls)
        /\ f.pc = "returned"
        /\ f.results.success = FALSE

\* the place of a step in the order of the pipeline (3 is the short-circuit
\* check, which makes no call)
Rank(op) ==
  CASE op = "ensureRepo"          -> 1
    [] op = "gitPull"             -> 2
    [] op = "installDependencies" -> 4
    [] op = "stopScript"          -> 5
    [] op = "execAsync"           -> 6
    [] op = "addScript"           -> 7
    [] op = "restartScript"       -> 8

\* C8: within one pipeline execution the steps run in the order EnsureRepo,
\* Pull, InstallDependencies, StopScripts, Build, RegisterScripts,
\* RestartScripts; a call is made only when the previous call has settled, and
\* a call after a call of a fatal step only if that call succeeded.
C8_StepOrder ==
  \A p \in DOMAIN pipes :
    LET c == pipes[p].calls IN
    \A k \in 1..(Len(c) - 1) :
      /\ "success" \in DOMAIN c[k]
      /\ Rank(c[k].op) <= Rank(c[k + 1].op)
      /\ c[k].op \in {"ensureRepo", "gitPull", "installDependencies"} =>
           Rank(c[k].op) < Rank(c[k + 1].op)
      /\ c[k].op \in FatalOps => c[k].success

\* a pipeline has executed every one of the seven steps and completed
C8_Witness ==
  \E p \in DOMAIN pipes :
    LET f == pipes[p] IN
    /\ f.pc = "returned" /\ f.results.success = TRUE
    /\ {f.calls[k].op : k \in DOMAIN f.calls} = FatalOps \cup LifecycleOps

\* the fresh-clone scenario: URL set, EnsureRepo cloned, dependencies
\* configured, no build commands, scripts to register and to restart, every
\* call succeeded, and the pipeline has ended
FreshCloneScenario(f) ==
  /\ RepoOf(f).repoUrl /\ FreshClone(f)
  /\ RepoOf(f).dependencies \notin {"absent", "none"}
  /\ getBuildCommands(RepoOf(f)) = <<>>
  /\ Len(RepoOf(f).registerScripts) > 0 /\ Len(RepoOf(f).restartScripts) > 0
  /\ f.pc = "returned"
  /\ \A k \in DOMAIN f.calls : ~Failed(f.calls[k])

\* C9: the fresh-clone scenario ends with success = true and a steps list of
\* exactly 5 entries: EnsureRepo, Pull, InstallDependencies, RegisterScripts,
\* RestartScripts.
C9_FiveSteps ==
  \A p \in DOMAIN pipes :
    FreshCloneScenario(pipes[p]) =>
      /\ pipes[p].results.success = TRUE
      /\ StepNames(pipes[p]) =
           <<"ensure-repo", "git-pull", "install-deps", "register-scripts",
             "restart-scripts">>

\* C9, as the code has it: the steps list has 6 entries, the fourth being
\* the placeholder {step: 'build', skipped: true}.
C9_SixSteps ==
  \A p \in DOMAIN pipes :
    FreshCloneScenario(pipes[p]) =>
      /\ pipes[p].results.success = TRUE
      /\ StepNames(pipes[p]) =
           <<"ensure-repo", "git-pull", "install-deps", "build",
             "register-scripts", "restart-scripts">>
      /\ pipes[p].results.steps[4] = [step |-> "build", skipped |-> TRUE]

\* the fresh-clone scenario has happened, with the dependencies installed
C9_Witness ==
  \E p \in DOMAIN pipes :
    /\ FreshCloneScenario(pipes[p])
    /\ \E k \in DOMAIN pipes[p].results.steps :
         pipes[p].results.steps[k] = [step |-> "install-deps", success |-> TRUE]

(***************************************************************************)
(* The webhook server (WebhookSpec).                                       *)
(***************************************************************************)
\* C10: when a secret is configured, every pipeline started by the webhook
\* path was started by a request that carried a signature or token valid for
\* that secret.
C10_VerifiedPipelines ==
  config.secret # "" =>
    \A p \in DOMAIN pipes :
      pipes[p].caller = "webhook" => pipes[p].credential

(***************************************************************************)
(* The verification functions (VerifySpec).                                *)
(***************************************************************************)
HmacVerifiers == {"verifyGitHubSignature", "verifyGiteaSignature"}

\* C11: with a configured secret s and payload p, verification is true when
\* the header is "sha256=" followed by the HMAC-SHA256 of p under s, and false
\* for every other header, a missing one included; with no secret configured
\* it is true for every payload and header.
C11_SignatureVerification ==
  call.fn \in HmacVerifiers =>
    call.result = IF call.secret = "" THEN TRUE
                  ELSE call.signature = Signed(call.secret, call.payload)

\* a header has been accepted under a configured secret
C11_Witness ==
  call.fn \in HmacVerifiers /\ call.secret # "" /\ call.result = TRUE

\* C12: with a configured secret the token verification is true exactly when
\* the header token equals the secret, a missing token being rejected; with
\* no secret configured it is true for every token.
C12_TokenVerification ==
  call.fn = "verifyGitLabToken" =>
    call.result = IF call.secret = "" THEN TRUE ELSE call.token = call.secret

\* a missing token has been rejected under a configured secret
C12_Witness ==
  /\ call.fn = "verifyGitLabToken" /\ call.secret # ""
  /\ call.token = Absent /\ call.result = FALSE

(***************************************************************************)
(* The webhook handler (WebhookSpec).                                      *)
(***************************************************************************)
\* GET /health, POST /webhook and POST /webhook/{github|gitlab|gitea}
Endpoint(method, path) ==
  \/ method = "GET" /\ path = "/health"
  \/ method = "POST"
     /\ path \in {"/webhook", "/webhook/github", "/webhook/gitlab", "/webhook/gitea"}

\* C13: every request is answered with 200, 400, 401 or 404, and with 404
\* exactly when it is not GET /health, POST /webhook or
\* POST /webhook/{github|gitlab|gitea}.
C13_StatusCodes ==
  response # NoResponse =>
    /\ response.status \in {200, 400, 401, 404}
    /\ response.status = 404 <=> ~Endpoint(response.method, response.path)

\* C14: a verified payload that is not a push event produces no trigger: it
\* is answered 200 without action, and no pipeline is running that was
\* started by a request declaring itself an event other than push.
C14_NonPushIgnored ==
  /\ response # NoResponse /\ response.message = "Event ignored (not a push)" =>
       response.status = 200
  /\ \A p \in DOMAIN pipes :
       pipes[p].caller = "webhook" => pipes[p].event \in {"push", Absent}

\* the configuration of activation f matches the trigger f was started for
Matches(f) ==
  LET rc == RepoOf(f)
      t  == f.results.trigger
  IN /\ rc.branch = t.branch
     /\ rc.name = t.repository \/ rc.name = t.fullName

\* C15: a trigger starts a pipeline for a repository configuration only if
\* the configuration's branch equals the trigger's branch and its name equals
\* the trigger's short or fully-qualified repository name; a trigger that
\* matches no configuration is answered 200 and starts no pipeline (a request
\* that starts one is answered 'Deployment triggered').
C15_RepoDispatch ==
  /\ [](\A p \in DOMAIN pipes : pipes[p].caller = "webhook" => Matches(pipes[p]))
  /\ [](response # NoResponse /\ response.message = "No matching repo configuration"
          => response.status = 200)
  /\ [][\A p \in DOMAIN pipes' \ DOMAIN pipes :
          pipes'[p].caller = "webhook" =>
            response'.status = 200 /\ response'.message = "Deployment triggered"]_vars

\* a pipeline has been started for a configuration named by the trigger's
\* fully-qualified name only
C15_Witness ==
  \E p \in DOMAIN pipes :
    /\ pipes[p].caller = "webhook"
    /\ RepoOf(pipes[p]).name = pipes[p].results.trigger.fullName
    /\ RepoOf(pipes[p]).name # pipes[p].results.trigger.repository

\* C16: the handler answers an accepted push without waiting for the
\* pipeline it submitted: the step that starts the pipeline produces the
\* 200 'Deployment triggered' response while the pipeline is in flight, and no
\* step in which a webhook-started pipeline advances, fails or settles changes
\* the response.
C16_AnswerWithoutWaiting ==
  [][/\ \A p \in DOMAIN pipes' \ DOMAIN pipes :
          pipes'[p].caller = "webhook" =>
            /\ response'.message = "Deployment triggered"
            /\ InFlight(pipes'[p])
     /\ (\E p \in DOMAIN pipes :
           /\ pipes[p].caller = "webhook"
           /\ p \notin DOMAIN pipes' \/ pipes'[p] # pipes[p])
        => response' = response]_vars

\* the pipeline of an accepted push has failed after the response
C16_Witness ==
  /\ response # NoResponse /\ response.message = "Deployment triggered"
  /\ \E p \in DOMAIN pipes :
       /\ pipes[p].caller = "webhook" /\ pipes[p].pc = "returned"
       /\ pipes[p].results.success = FALSE

(***************************************************************************)
(* Polling (Spec).                                                         *)
(***************************************************************************)
\* C17: poll ticks never overlap and a tick checks the repositories one at a
\* time in configuration order: while a tick is in progress no timer for the
\* next tick is pending, a tick starts at the first repository, goes from a
\* repository to the next one only, and the timer is set only by the step
\* that ends a tick.
C17_TicksSequential ==
  /\ [](poll.timer => poll.at = 0)
  /\ [][/\ poll.at = 0 /\ poll'.at # 0 => poll'.at = 1
        /\ poll.at # 0 /\ poll'.at # poll.at =>
             \/ poll'.at = poll.at + 1
             \/ poll'.at = 0 /\ (poll.at = Len(config.repos) \/ ~poll.running)
        /\ poll'.timer /\ ~poll.timer => poll'.at = 0]_vars

\* a tick has checked the first repository and is at the second
C17_Witness ==
  poll.running /\ poll.at = 2 /\ ~poll.timer

\* C18: a failed update check (a directory that is no working copy returns a
\* failure, a missing directory makes the check throw) does not abort the
\* scan: the step in which it settles takes the tick to the next repository,
\* or, after the last one, ends the tick with the next tick scheduled.
C18_FailedCheckContinues ==
  [][poll.running /\ poll.at # 0 /\ fs[poll.at] # "repo" /\ poll'.at # poll.at =>
       /\ poll'.running
       /\ poll.at < Len(config.repos) => poll'.at = poll.at + 1 /\ ~poll'.timer
       /\ poll.at = Len(config.repos) => poll'.at = 0 /\ poll'.timer]_vars

\* a tick has ended and the next one is scheduled although the check of the
\* first repository threw and the check of the second returned a failure
C18_Witness ==
  /\ Len(config.repos) = 2 /\ fs[1] = "missing" /\ fs[2] = "dir"
  /\ poll.running /\ poll.timer

\* the update check that has just settled succeeded with behind > 0
Behind(status) == Truthy(status, "success") /\ Truthy(status, "hasUpdates")

\* C19: in a poll tick a deployment is submitted for a repository exactly
\* when its update check succeeds with behind > 0, and the tick goes on
\* without waiting for that pipeline: the step in which the check of
\* repository poll.at settles starts a pipeline for that repository exactly
\* when the check found it behind, and in the same step, with that pipeline
\* in flight, the tick is at the next repository or has ended with the next
\* tick scheduled.
C19_SubmitAndGoOn ==
  [][poll.running /\ poll.at # 0 /\ poll'.at # poll.at =>
       LET started == {p \in DOMAIN pipes' \ DOMAIN pipes :
                         pipes'[p].caller = "poll"}
       IN /\ Behind(poll'.last) <=> started # {}
          /\ \A p \in started : pipes'[p].repo = poll.at /\ InFlight(pipes'[p])
          /\ Cardinality(started) <= 1
          /\ \A p \in DOMAIN pipes : p \in DOMAIN pipes' /\ pipes'[p] = pipes[p]
          /\ poll.at < Len(config.repos) => poll'.at = poll.at + 1
          /\ poll.at = Len(config.repos) => poll'.at = 0 /\ poll'.timer]_vars

\* the tick is checking the second repository while the pipeline it
\* submitted for the first one is still in flight
C19_Witness ==
  /\ poll.running /\ poll.at = 2
  /\ \E p \in DOMAIN pipes :
       pipes[p].caller = "poll" /\ pipes[p].repo = 1 /\ InFlight(pipes[p])

(***************************************************************************)
(* The poll controller (PollSpec).                                         *)
(***************************************************************************)
\* C20: after stop() no further tick starts and no timer is pending; stop()
\* does not preempt a tick that is in its loop: it leaves the tick where it
\* is, and the tick comes to its end once the check it awaits has settled.
C20_Stop ==
  /\ [](~poll.running => ~poll.timer)
  /\ [][poll.running /\ ~poll'.running => poll'.at = poll.at]_vars
  /\ [][main = "serving" /\ ~poll.running =>
          ~poll'.running /\ (poll'.at = poll.at \/ poll'.at = 0)]_vars
  /\ (main = "serving" /\ ~poll.running ~> poll.at = 0)

\* stop() has been called during a tick, which is still awaiting its check
C20_Witness ==
  main = "serving" /\ ~poll.running /\ poll.at > 0

(***************************************************************************)
(* Isolation of failures (Spec).                                           *)
(***************************************************************************)
\* C21: an error of one repository's pipeline or update check never aborts
\* the processing of another repository: as long as the startup deployment of
\* a repository is still to be made, the startup pass is going on, whatever
\* became of the pipelines of the repositories before it.
C21_ErrorsIsolated ==
  \A r \in DOMAIN config.repos : r > startupIdx => main \in {"ping", "startup"}

(***************************************************************************)
(* The steps of the pipeline one by one (DeploySpec).                      *)
(***************************************************************************)
\* the entry that the step named s has in the steps list of f, if any
Entries(f, s) == {k \in DOMAIN f.results.steps : f.results.steps[k].step = s}

\* the installer has returned to activation p in this step
InstallReturned(p) ==
  /\ p \in DOMAIN pipes /\ pipes[p].pc = "installDependencies"
  /\ p \in DOMAIN pipes' /\ pipes'[p] # pipes[p]

\* C22: InstallDependencies is called only when the dependency type is not
\* none; when it is called and the manifest file is absent the step is
\* recorded as a skip and the pipeline goes on with success unchanged; when
\* the install fails the pipeline ends with success = false and no later
\* step is executed.
C22_InstallDependencies ==
  [][\A p \in 1..MaxDeploys :
       /\ p \in DOMAIN pipes' /\ CallsOf(pipes'[p], {"installDependencies"}) # {} =>
            RepoOf(pipes'[p]).dependencies \notin {"absent", "none"}
       /\ InstallReturned(p) =>
            LET f    == pipes[p]
                g    == pipes'[p]
                last == g.results.steps[Len(f.results.steps) + 1]
            IN /\ last.step = "install-deps"
               /\ Truthy(last, "skipped") =>
                    /\ g.results.success = f.results.success
                    /\ "error" \notin DOMAIN g.results
                    /\ \/ InFlight(g) /\ Len(g.calls) = Len(f.calls) + 1
                       \/ g.pc = "returned" /\ Len(g.results.steps) > Len(f.results.steps) + 1
               /\ ~last.success =>
                    /\ g.pc = "returned" /\ g.results.success = FALSE
                    /\ Len(g.calls) = Len(f.calls)
                    /\ Len(g.results.steps) = Len(f.results.steps) + 1
  ]_vars

\* the installer was called, found no manifest, and the pipeline went on to
\* later calls and to its end with success = true
C22_Witness ==
  \E p \in DOMAIN pipes :
    LET f == pipes[p] IN
    /\ f.pc = "returned" /\ f.results.success = TRUE
    /\ \E k \in CallsOf(f, {"installDependencies"}) : k < Len(f.calls)
    /\ \E k \in Entries(f, "install-deps") : Truthy(f.results.steps[k], "skipped")

\* the calls of op that f has made, in the order it made them
CallSeq(f, op) == SelectSeq(f.calls, LAMBDA c : c.op = op)

\* f has come past InstallDependencies (deploy line 284)
PastInstall(f) ==
  \E k \in Entries(f, "install-deps") :
    Truthy(f.results.steps[k], "skipped") \/ Truthy(f.results.steps[k], "success")

\* C23: StopScripts is executed exactly when the resolved list of build
\* commands and the list of restart targets are both non-empty; when executed
\* it issues a stop for every restart target, in order, before the first
\* build command starts, and a failed stop neither prevents the remaining
\* stops nor aborts the pipeline.
C23_StopScripts ==
  \A p \in DOMAIN pipes :
    LET f       == pipes[p]
        stops   == CallSeq(f, "stopScript")
        targets == RepoOf(f).restartScripts
        cmds    == getBuildCommands(RepoOf(f))
    IN /\ Len(stops) > 0 <=> PastInstall(f) /\ Len(cmds) > 0 /\ Len(targets) > 0
       /\ \A k \in DOMAIN stops : k <= Len(targets) /\ stops[k].arg = targets[k]
       /\ \A e \in CallsOf(f, {"execAsync"}) :
            /\ Len(targets) > 0 => Len(stops) = Len(targets)
            /\ \A s \in CallsOf(f, {"stopScript"}) : s < e
       /\ \A s \in CallsOf(f, {"stopScript"}) :
            Failed(f.calls[s]) =>
              /\ s < Len(f.calls)
              /\ f.calls[s + 1].op = IF Cardinality(CallsOf(f, {"stopScript"}) \cap 1..s) < Len(targets)
                                     THEN "stopScript" ELSE "execAsync"
              /\ f.pc = "returned" /\ ~f.results.success => FatalFailure(f)

\* of two restart targets the stop of the first failed, the second was
\* stopped all the same, the build ran and the pipeline ended with success
C23_Witness ==
  \E p \in DOMAIN pipes :
    LET f     == pipes[p]
        stops == CallSeq(f, "stopScript")
    IN /\ Len(stops) = 2 /\ Failed(stops[1]) /\ ~Failed(stops[2])
       /\ CallsOf(f, {"execAsync"}) # {}
       /\ f.pc = "returned" /\ f.results.success = TRUE

\* f has come past Build (deploy line 343)
PastBuild(f) ==
  /\ Entries(f, "build") # {}
  /\ \A k \in CallsOf(f, {"execAsync"}) : ~Failed(f.calls[k])

\* f has come past RegisterScripts (deploy line 362)
PastRegister(f) ==
  \/ CallsOf(f, {"restartScript"}) # {}
  \/ Entries(f, "restart-scripts") # {}

\* C24: RegisterScripts is executed exactly when EnsureRepo made a fresh
\* clone in this run and the register list is non-empty (never for a
\* repository without a remote URL or one that existed already); when
\* executed, an add-script call is made for every entry, in order, a failed
\* entry not preventing the remaining calls.
C24_RegisterScripts ==
  \A p \in DOMAIN pipes :
    LET f    == pipes[p]
        adds == CallSeq(f, "addScript")
        reg  == RepoOf(f).registerScripts
    IN /\ Len(adds) > 0 <=> PastBuild(f) /\ FreshClone(f) /\ Len(reg) > 0
       /\ Len(adds) > 0 =>
            /\ RepoOf(f).repoUrl
            /\ \E k \in CallsOf(f, {"ensureRepo"}) : f.calls[k].success
            /\ \A k \in Entries(f, "ensure-repo") : ~Truthy(f.results.steps[k], "existed")
       /\ \A k \in DOMAIN adds : k <= Len(reg) /\ adds[k].arg = reg[k]
       /\ \A k \in DOMAIN adds : "success" \in DOMAIN adds[k] /\ k < Len(reg) => Len(adds) > k
       /\ PastRegister(f) /\ Len(adds) > 0 =>
            /\ Len(adds) = Len(reg)
            /\ \E k \in Entries(f, "register-scripts") :
                 Len(f.results.steps[k].results) = Len(reg)

\* after a fresh clone the registration of the first of two scripts failed,
\* the second was registered all the same, and the pipeline went on
C24_Witness ==
  \E p \in DOMAIN pipes :
    LET f    == pipes[p]
        adds == CallSeq(f, "addScript")
    IN /\ Len(adds) = 2 /\ Failed(adds[1]) /\ ~Failed(adds[2])
       /\ PastRegister(f) /\ FreshClone(f)

\* f has reached RestartScripts (deploy line 362)
ReachedRestart(f) ==
  /\ PastBuild(f)
  /\ \/ Entries(f, "register-scripts") # {}
     \/ ~(FreshClone(f) /\ Len(RepoOf(f).registerScripts) > 0)

\* C25: when the pipeline reaches RestartScripts with a non-empty list, a
\* restart call is made for every entry, in declared order, whatever failed
\* before; the number of restart results recorded equals the length of the
\* list.
C25_RestartScripts ==
  \A p \in DOMAIN pipes :
    LET f       == pipes[p]
        rs      == CallSeq(f, "restartScript")
        targets == RepoOf(f).restartScripts
    IN /\ Len(rs) > 0 <=> ReachedRestart(f) /\ Len(targets) > 0
       /\ \A k \in DOMAIN rs : k <= Len(targets) /\ rs[k].arg = targets[k]
       /\ \A k \in DOMAIN rs : "success" \in DOMAIN rs[k] /\ k < Len(targets) => Len(rs) > k
       /\ ~InFlight(f) /\ Len(rs) > 0 =>
            /\ f.pc = "returned" /\ Len(rs) = Len(targets)
            /\ \E k \in Entries(f, "restart-scripts") :
                 LET res == f.results.steps[k].results IN
                 /\ Len(res) = Len(targets)
                 /\ \A j \in DOMAIN res :
                      res[j].script = targets[j] /\ res[j].success = rs[j].success

\* a stop, a registration and the first of two restarts have failed, and the
\* second restart was made and recorded all the same
C25_Witness ==
  \E p \in DOMAIN pipes :
    LET f  == pipes[p]
        rs == CallSeq(f, "restartScript")
    IN /\ f.pc = "returned" /\ Len(rs) = 2 /\ Failed(rs[1])
       /\ \E k \in CallsOf(f, {"stopScript"}) : Failed(f.calls[k])
       /\ \E k \in CallsOf(f, {"addScript"}) : Failed(f.calls[k])

\* C26: every pipeline execution ends by producing a terminal result for its
\* caller: no failure of a collaborator call, a call that throws included,
\* escapes deploy as an exception; an activation that has ended has returned
\* its results object.
C26_TerminalResult ==
  \A p \in DOMAIN pipes :
    LET f == pipes[p] IN
    ~InFlight(f) => f.pc = "returned" /\ "success" \in DOMAIN f.results

(***************************************************************************)
(* The configuration (LoadSpec).                                           *)
(***************************************************************************)
\* C27: two repository configurations with the same name and branch are
\* rejected when the configuration is loaded: the program does not go on
\* with a configuration that has two of them.
C27_DuplicatesRejected ==
  main \notin {"load", "exited"} =>
    \A i, j \in DOMAIN config.repos :
      i # j => ~(/\ config.repos[i].name = config.repos[j].name
                 /\ config.repos[i].branch = config.repos[j].branch)

(***************************************************************************)
(* The result of a pipeline (DeploySpec).                                  *)
(***************************************************************************)
\* C28: the result of every pipeline execution that has returned (by
\* completion, by the short circuit, or by a failure of EnsureRepo, Pull,
\* InstallDependencies or Build) has the elapsed time of the execution as its
\* duration.
C28_DurationRecorded ==
  \A p \in DOMAIN pipes :
    LET f == pipes[p] IN
    f.pc = "returned" => f.results.duration = Elapsed(f)

(***************************************************************************)
(* Payloads (WebhookSpec).                                                 *)
(***************************************************************************)
\* C29: a webhook request whose body is valid JSON never makes the handler
\* throw, whatever JSON value the body is and whatever fields it lacks: it is
\* answered 200 or 401.
C29_ValidJsonNeverThrows ==
  /\ response # NoResponse
  /\ response.method = "POST" /\ StartsWithWebhook(response.path)
  /\ response.message # "Invalid JSON"
  => response.message # "TypeError" /\ response.status \in {200, 401}

(***************************************************************************)
(* The branch of a trigger (ParseSpec).                                    *)
(***************************************************************************)
\* the ref of a payload ('' when it has none)
RefOf(body) == IF Has(body, "ref") THEN body.fields.ref ELSE <<>>

\* ref starts with refs/heads/
IsBranchRef(ref) == Len(ref) >= 3 /\ ref[1] = "refs" /\ ref[2] = "heads"

\* C30: the branch of a trigger is the ref without its prefix refs/heads/
\* when the ref starts with it, and the ref unchanged otherwise.
C30_BranchOfRef ==
  call.fn \in {"parseGitHubPush", "parseGitLabPush", "parseGiteaPush"} =>
    LET ref == RefOf(call.body) IN
    call.result.branch = IF IsBranchRef(ref) THEN SubSeq(ref, 3, Len(ref)) ELSE ref

(***************************************************************************)
(* Gitea (GiteaSpec).                                                      *)
(***************************************************************************)
\* req is served in this step as a Gitea webhook, a secret is configured and
\* the body is JSON other than null
GiteaServed(req) ==
  /\ config.secret # ""
  /\ req.body.json \notin {"invalid", "null"}
  /\ response' # NoResponse
  /\ response'.path = req.path /\ response'.method = req.method
  /\ Examine(req, config.secret).provider = "gitea"
  /\ Request(req)

C32_PollTrigger ==
  \A p \in DOMAIN pipes :
    pipes[p].caller = "poll" =>
      /\ "provider" \in DOMAIN pipes[p].results.trigger
      /\ pipes[p].results.trigger.provider = "poll"

(***************************************************************************)
(* The load of the configuration (LoadSpec).                               *)
(***************************************************************************)
\* there is no configuration file, or what it holds has no list of
\* repositories
Unloadable(file) == "missing" \in DOMAIN file \/ "repos" \notin DOMAIN file

\* C33: a missing or invalid repository list is fatal at startup: when the
\* load of the configuration fails the process exits, and it has executed no
\* pipeline and started neither the webhook server nor the poll loop.
C33_LoadFailureFatal ==
  /\ [](Unloadable(config) =>
          /\ main \in {"load", "exited"}
          /\ pipes = <<>> /\ nextId = 1 /\ startupIdx = 0
          /\ ~server /\ poll = NoPolling)
  /\ [][main = "load" /\ Unloadable(config) => main' = "exited"]_vars
  /\ [][main = "exited" => main' = "exited"]_vars

\* the process has exited on a file whose repos is no list
C33_Witness ==
  main = "exited" /\ "reposOther" \in DOMAIN config

C35_RerunAfterFailure ==
  \A p, q \in DOMAIN pipes :
    LET f == pipes[p]
        g == pipes[q]
    IN /\ q = p + 1 /\ f.repo = g.repo /\ p \notin g.during
       /\ f.pc = "returned" /\ f.changed
       /\ \E k \in CallsOf(f, {"installDependencies", "execAsync"}) : Failed(f.calls[k])
       /\ g.pc = "returned"
       /\ \E k \in CallsOf(g, {"gitPull"}) : g.calls[k].success
       => /\ ~Truthy(g.results, "skipped")
          /\ Entries(g, "install-deps") # {}

(***************************************************************************)
(* Stopped and restarted (DeploySpec).                                     *)
(***************************************************************************)
\* C36: within one pipeline execution the scripts stopped by StopScripts are
\* restarted if and only if every build command succeeds: restarts are
\* issued only after a build without failure, a pipeline that ends after such
\* a build has restarted every target, and when a build command fails after
\* StopScripts ran the pipeline ends with every restart target stopped and
\* none restarted.
C36_RestartIffBuilt ==
  \A p \in DOMAIN pipes :
    LET f       == pipes[p]
        stops   == CallSeq(f, "stopScript")
        rs      == CallSeq(f, "restartScript")
        x       == ExecCalls(f)
        targets == RepoOf(f).restartScripts
        failed  == \E k \in DOMAIN x : Failed(x[k])
    IN Len(stops) > 0 =>
         /\ Len(rs) > 0 =>
              /\ ~failed /\ Len(x) = Len(getBuildCommands(RepoOf(f)))
              /\ \A k \in DOMAIN x : "success" \in DOMAIN x[k]
         /\ ~InFlight(f) /\ ~failed =>
              {rs[k].arg : k \in DOMAIN rs} = {targets[k] : k \in DOMAIN targets}
         /\ failed =>
              /\ f.pc = "returned" /\ ~f.results.success
              /\ Len(rs) = 0
              /\ Len(stops) = Len(targets)
              /\ \A k \in DOMAIN targets : stops[k].arg = targets[k]

\* two scripts were stopped, the second of two build commands failed, and
\* the pipeline has ended without a restart
C36_Witness ==
  \E p \in DOMAIN pipes :
    LET f == pipes[p]
        x == ExecCalls(f)
    IN /\ f.pc = "returned"
       /\ Len(CallSeq(f, "stopScript")) = 2
       /\ Len(x) = 2 /\ Failed(x[2])
       /\ CallsOf(f, {"restartScript"}) = {}

(***************************************************************************)
(* The startup pass (Spec).                                                *)
(***************************************************************************)
\* the startup pipelines there are in ps that have not terminated
StartupRunning(ps) ==
  {p \in DOMAIN ps : ps[p].caller = "startup" /\ InFlight(ps[p])}

\* C37: startup deployments run one at a time in configuration order, each
\* awaited before the next starts; the webhook server and the poll loop are
\* started only when the startup deployment of every repository has
\* terminated, so that no pipeline of a webhook or a poll overlaps a startup
\* pipeline; as long as a startup pipeline has not terminated, no later
\* repository is deployed and no producer is started.
C37_StartupPass ==
  /\ [](/\ \A p \in DOMAIN pipes :
             pipes[p].caller = "startup" =>
               /\ pipes[p].repo = startupIdx
               /\ \A q \in DOMAIN pipes : pipes[q].caller = "startup" => q = p
               /\ InFlight(pipes[p]) =>
                    /\ ~server /\ poll = NoPolling
                    /\ \A q \in DOMAIN pipes : pipes[q].caller = "startup"
        /\ server \/ poll # NoPolling =>
             /\ startupIdx > Len(config.repos)
             /\ \A p \in DOMAIN pipes : pipes[p].caller # "startup")
  /\ [][/\ startupIdx' \in {startupIdx, startupIdx + 1}
        /\ startupIdx' # startupIdx => StartupRunning(pipes) = {}
        /\ StartupRunning(pipes) \cap StartupRunning(pipes') # {} =>
             startupIdx' = startupIdx /\ ~server' /\ poll' = NoPolling]_vars

\* both repositories have had their startup deployment, the server is up and
\* a webhook has started a pipeline
C37_Witness ==
  /\ Len(config.repos) = 2 /\ startupIdx > 2 /\ server
  /\ \E p \in DOMAIN pipes : pipes[p].caller = "webhook" /\ InFlight(pipes[p])

(***************************************************************************)
(* stop() during a tick (PollSpec).                                        *)
(***************************************************************************)
\* C38: once stop() has been called during a tick, the tick begins no update
\* check for a further repository and schedules no tick, and the poll loop
\* submits at most one more deployment: the one for the repository whose
\* check was in flight at the stop, submitted when that check settles and
\* the tick ends.
C38_StopDuringTick ==
  [][main = "serving" /\ ~poll.running =>
       /\ poll'.at \in {0, poll.at}
       /\ ~poll'.timer /\ ~poll'.running
       /\ \A p \in DOMAIN pipes' \ DOMAIN pipes :
            pipes'[p].caller = "poll" =>
              /\ poll.at > 0 /\ pipes'[p].repo = poll.at
              /\ poll'.at = 0
              /\ Cardinality(DOMAIN pipes' \ DOMAIN pipes) = 1]_vars

\* of two repositories the first was being checked when stop() was called;
\* its check found updates and its deployment was submitted, the second was
\* never checked, and the tick is over
C38_Witness ==
  /\ main = "serving" /\ Len(config.repos) = 2
  /\ ~poll.running /\ poll.at = 0 /\ ~poll.timer
  /\ "hasUpdates" \in DOMAIN poll.last /\ poll.last.hasUpdates
  /\ \E p \in DOMAIN pipes :
       pipes[p].caller = "poll" /\ pipes[p].repo = 1 /\ Len(pipes[p].calls) = 1
       /\ InFlight(pipes[p])

(***************************************************************************)
(* The steps list (DeploySpec).                                            *)
(***************************************************************************)
\* C39: the steps list of a pipeline execution only grows by appending, has
\* each step name at most once, and is ordered ensure-repo, git-pull,
\* install-deps, build, register-scripts, restart-scripts; a pipeline that
\* completes without skip or failure has git-pull, install-deps, build and
\* restart-scripts entries; a skipped pipeline has ensure-repo (when a remote
\* URL is configured) and git-pull only.
C39_StepsList ==
  /\ [](\A p \in DOMAIN pipes :
          LET f     == pipes[p]
              names == StepNames(f)
              order == <<"ensure-repo", "git-pull", "install-deps", "build",
                         "register-scripts", "restart-scripts">>
              rank(s) == CHOOSE i \in DOMAIN order : order[i] = s
          IN /\ \A k \in DOMAIN names : \E i \in DOMAIN order : order[i] = names[k]
             /\ \A j, k \in DOMAIN names : j < k => rank(names[j]) < rank(names[k])
             /\ f.pc = "returned" /\ f.results.success /\ ~Truthy(f.results, "skipped") =>
                  {"git-pull", "install-deps", "build", "restart-scripts"}
                    \subseteq {names[k] : k \in DOMAIN names}
             /\ Truthy(f.results, "skipped") =>
                  names = IF RepoOf(f).repoUrl THEN <<"ensure-repo", "git-pull">>
                          ELSE <<"git-pull">>)
  /\ [][\A p \in DOMAIN pipes \cap DOMAIN pipes' :
          LET old == pipes[p].results.steps
              new == pipes'[p].results.steps
          IN Len(old) <= Len(new) /\ old = SubSeq(new, 1, Len(old))]_vars

\* a pipeline has completed with all six entries in its steps list, two of
\* them placeholders
C39_Witness ==
  \E p \in DOMAIN pipes :
    LET f == pipes[p] IN
    /\ f.pc = "returned" /\ f.results.success /\ Len(f.results.steps) = 6
    /\ Cardinality({k \in DOMAIN f.results.steps :
                      Truthy(f.results.steps[k], "skipped")}) = 2

====
